---- MODULE Spec2Model ----
(***************************************************************************)
(* ModelSignature JavaScript SDK: the verification transport               *)
(* (ModelSignatureClient), the token codec helpers and the policy engine   *)
(* (PolicyEnforcer), as one state machine.                                 *)
(*                                                                         *)
(* One client and one enforcer exist; one call is in flight at a time and  *)
(* advances between its suspension points (each `await` of the source is   *)
(* a boundary between two actions).  updateConfig may run at any boundary. *)
(*                                                                         *)
(* Strings are sequences of chunks (a chunk is a piece of text that is     *)
(* never split), so that concatenation, template literals and the          *)
(* retry-wrapper regular expression are computed, not assumed.             *)
(* Optional values are None (absent / undefined) or Some(v).               *)
(***************************************************************************)
EXTENDS Integers, Sequences, FiniteSets, TLC

VARIABLES
    clientCtor,     \* the argument given to new ModelSignatureClient(...)
    clientConfig,   \* ModelSignatureClient.config
    policyCtor,     \* how the enforcer was built: [factory, config]
    policyConfig,   \* PolicyEnforcer.config
    updates,        \* [client, policy]: number of updateConfig calls so far
    heap,           \* the contents of the array objects configurations refer to
    configRefs,     \* the arrays PolicyEnforcer.config refers to, by field
    held,           \* a configuration object the caller keeps a reference to
    pc,             \* position of the call in flight
    op,             \* the public method that was called
    token,          \* its token argument
    encoded,        \* the claims object that token was encoded from, if any
    responseText,   \* bindResponse: its responseText argument
    rules,          \* quickCheck: its rules argument
    startPolicy,    \* the enforcer's configuration when the call started
    startConfig,    \* the client configuration when the call started
    usedPolicy,     \* the policy configuration enforcePolicy's rule phase read
    attempt,        \* makeRequest: loop variable
    lastError,      \* makeRequest: lastError (None while unassigned)
    status,         \* status of the response whose body is being read
    fetches,        \* number of fetch calls made by this call
    log,            \* how each finished network attempt of this call ended
    unparsed,       \* whether a 2xx body of this call failed to parse
    waits,          \* number of backoff waits begun so far in this call
    delay,          \* the delay of the wait in progress (0 when none)
    overdue,        \* the attempt in progress has outlasted this.config.timeout
    url,            \* makeRequest: its url constant (None when no request ran)
    timer,          \* the delay the latest attempt's timeout timer was armed with
    errorData,      \* errorData of the current iteration: the body read from
                    \* its non-2xx response, if any
    settled,        \* how client.verifyToken settled, for enforcePolicy to resume
    now,            \* Math.floor(Date.now() / 1000) read by the rule checks
    outcome         \* how the call settled

transportVars ==
    <<attempt, lastError, status, fetches, log, unparsed, waits, delay, overdue,
      url, timer,
          errorData>>
configVars == <<clientCtor, clientConfig, policyCtor, policyConfig, updates,
                heap, configRefs, held>>
vars == <<clientCtor, clientConfig, policyCtor, policyConfig, updates, heap,
          configRefs, held, pc, op,
          token, encoded, responseText, rules, startPolicy, startConfig,
          usedPolicy, attempt, lastError, status, fetches,
          log, unparsed, waits, delay, overdue, url, timer,
          errorData, settled, now,
          outcome>>

-----------------------------------------------------------------------------
(* Optional values and strings                                             *)

None == <<>>
Some(x) == <<x>>
Get(o) == o[1]

\* JavaScript truthiness of an optional string / optional number
TruthyStr(o) == o # None /\ Get(o) # <<>>
TruthyNum(o) == o # None /\ Get(o) # 0

\* `${x}` of an optional string
Str(o) == IF o = None THEN <<"undefined">> ELSE Get(o)

Min(a, b) == IF a <= b THEN a ELSE b

RECURSIVE Pow2(_)
Pow2(n) == IF n <= 0 THEN 1 ELSE 2 * Pow2(n - 1)

\* Array.prototype.join
RECURSIVE Join(_, _)
Join(list, sep) ==
    IF list = <<>> THEN <<>>
    ELSE IF Len(list) = 1 THEN list[1]
    ELSE list[1] \o sep \o Join(Tail(list), sep)

\* a line terminator, which `.` of a regular expression does not match
NL == "\n"

-----------------------------------------------------------------------------
(* Bounds of the model                                                     *)

\* the earliest reading of the clock, in seconds since the epoch
Epoch == 100000
\* the clock is read at Epoch .. Epoch + ClockSpan
ClockSpan == 1
\* updateConfig calls (client and enforcer together) in one behaviour
MaxUpdates == 1
\* the longest argument of the helpers of utils.ts, in segments
MaxParts == 4

-----------------------------------------------------------------------------
(* Errors (types.ts)                                                       *)

ModelSignatureError(message, code, statusCode) ==
    [name |-> "ModelSignatureError", message |-> message, code |-> code,
     statusCode |-> statusCode, violations |-> <<>>]

PolicyViolationError(message, violations) ==
    [name |-> "PolicyViolationError", message |-> message,
     code |-> Some("POLICY_VIOLATION"), statusCode |-> None,
     violations |-> violations]

\* an error that is not a ModelSignatureError: what fetch rejects with
\* (TypeError, AbortError) or what response.json() throws (SyntaxError)
NativeError(name, message) ==
    [name |-> name, message |-> message, code |-> None, statusCode |-> None,
     violations |-> <<>>]

\* error instanceof ModelSignatureError (PolicyViolationError extends it)
IsModelSignatureError(e) ==
    e.name \in {"ModelSignatureError", "PolicyViolationError"}

Returned(v) == [kind |-> "return", value |-> Some(v), error |-> None]
Thrown(e) == [kind |-> "throw", value |-> None, error |-> Some(e)]
Pending == [kind |-> "pending", value |-> None, error |-> None]

-----------------------------------------------------------------------------
(* Tokens and the token codec (utils.ts)                                   *)

\* A token argument is a string or not (null, undefined, a number); a string
\* is the sequence of its dot-separated segments, token.split('.'), so that
\* the empty string is one empty segment.  A segment is the sequence of its
\* characters, each given by its class, together with what JSON.parse yields
\* for the bytes the segment encodes: kind "error" (JSON.parse throws),
\* "null" (the JSON value null) or "object" with optional iat, exp.
Alnum == "a"
Punct == "%"
Base64UrlChars == {Alnum, "-", "_"}
Base64Chars == {Alnum, "+", "/", "="}

\* what JSON.parse gives: a failure, null, or an object read through its
\* iat, exp and sub fields (sub is a string, a sequence of code points)
JsonError == [kind |-> "error", iat |-> None, exp |-> None, sub |-> None]
JsonNull == [kind |-> "null", iat |-> None, exp |-> None, sub |-> None]
JsonClaims(iat, exp, sub) ==
    [kind |-> "object", iat |-> iat, exp |-> exp, sub |-> sub]
JsonObject(iat, exp) == JsonClaims(iat, exp, None)

Segment(chars, json) == [chars |-> chars, json |-> json]
StringToken(parts) == [isString |-> TRUE, parts |-> parts]
\* a token argument that is not a string
NonString == [isString |-> FALSE, parts |-> <<>>]

SegOpaque == Segment(<<Alnum, "-", "_">>, JsonError)
SegPayload(iat) == Segment(<<Alnum, Alnum>>, JsonObject(iat, None))
\* a payload in standard base64 with '=' padding
SegPadded(iat) == Segment(<<Alnum, "+", "=">>, JsonObject(iat, None))
\* a payload carrying both iat and exp
SegTimes(iat, exp) == Segment(<<Alnum, "_">>, JsonObject(iat, exp))
SegEmpty == Segment(<<>>, JsonError)
\* a segment holding a character that is in neither alphabet
SegBadChar == Segment(<<Alnum, Punct>>, JsonObject(Some(Epoch - 60), None))
SegJsonNull == Segment(<<Alnum>>, JsonNull)

TokFresh == StringToken(<<SegOpaque, SegPayload(Some(Epoch - 60)), SegOpaque>>)
TokEdge == StringToken(<<SegOpaque, SegPayload(Some(Epoch - 900)), SegOpaque>>)
TokOpaque == StringToken(<<SegOpaque, SegOpaque, SegOpaque>>)
\* issued at the epoch of the clock (iat: 0), and issued in the future
TokIatZero == StringToken(<<SegOpaque, SegPayload(Some(0)), SegOpaque>>)
TokFuture == StringToken(<<SegOpaque, SegPayload(Some(Epoch + 120)), SegOpaque>>)
TokTwoParts == StringToken(<<SegOpaque, SegPayload(Some(Epoch - 60))>>)
TokPadded == StringToken(<<SegOpaque, SegPadded(Some(Epoch - 60)), SegOpaque>>)
TokFourParts ==
    StringToken(<<SegOpaque, SegPayload(Some(Epoch - 60)), SegOpaque, SegOpaque>>)
TokEmptySeg == StringToken(<<SegOpaque, SegPayload(Some(Epoch - 60)), SegEmpty>>)
TokBadChar == StringToken(<<SegOpaque, SegBadChar, SegOpaque>>)
TokEmpty == StringToken(<<SegEmpty>>)

ValidFormatTokens == {TokFresh, TokEdge, TokOpaque, TokIatZero, TokFuture}
MalformedTokens == {TokTwoParts, TokPadded}
\* the tokens given to enforcePolicy, and those given to the client's own
\* methods (which never look into a segment)
Tokens == ValidFormatTokens \cup MalformedTokens
QuickTokens == {TokFresh, TokOpaque, TokTwoParts}
BindTokens == {TokFresh, TokTwoParts, NonString}
ClientTokens ==
    {TokFresh, TokFourParts, TokEmptySeg, TokBadChar, TokEmpty, NonString}
        \cup MalformedTokens

\* variant: /^[A-Za-z0-9_-]*$/, which the empty segment matches
base64UrlRegexStar(seg) ==
    \A i \in 1..Len(seg.chars) : seg.chars[i] \in Base64UrlChars

\* /^[A-Za-z0-9_-]+$/.test(part)
base64UrlRegex(seg) ==
    /\ Len(seg.chars) >= 1
    /\ \A i \in 1..Len(seg.chars) : seg.chars[i] \in Base64UrlChars

\* variant: only tokens of fewer than three segments are rejected
isValidTokenFormatAtLeastThree(t) ==
    /\ t.isString
    /\ t.parts # <<SegEmpty>>
    /\ Len(t.parts) >= 3
    /\ \A i \in 1..Len(t.parts) : base64UrlRegex(t.parts[i])

\* !token is true of a non-string (null, undefined, 0) and of ''
isValidTokenFormat(t) ==
    /\ t.isString
    /\ t.parts # <<SegEmpty>>
    /\ Len(t.parts) = 3
    /\ \A i \in 1..Len(t.parts) : base64UrlRegex(t.parts[i])

\* payload.replace(/-/g, '+').replace(/_/g, '/')
ReplaceUrlChars(chars) ==
    [i \in 1..Len(chars) |->
        CASE chars[i] = "-" -> "+"
          [] chars[i] = "_" -> "/"
          [] OTHER -> chars[i]]

\* atob throws on a character outside the base64 alphabet
AtobThrows(chars) == \E i \in 1..Len(chars) : chars[i] \notin Base64Chars

\* JSON.parse(atob(...)) of a segment; atob('') is '', which is not JSON
DecodeSegment(seg) ==
    IF AtobThrows(ReplaceUrlChars(seg.chars)) \/ seg.chars = <<>>
    THEN JsonError ELSE seg.json

\* variant: no try/catch, what the body of parseJWT throws escapes
parseJWTUnguarded(t) ==
    IF ~t.isString THEN Thrown(NativeError("TypeError", <<"token.split is not a function">>))
    ELSE IF Len(t.parts) # 3 THEN Returned(None)
    ELSE LET json == DecodeSegment(t.parts[2]) IN
         IF json.kind = "error"
         THEN Thrown(NativeError("SyntaxError", <<"Unexpected token">>))
         ELSE IF json.kind = "object" THEN Returned(Some(json))
         ELSE Returned(None)

\* how a call of parseJWT settles (a returned None is null)
parseJWTOutcome(t) ==
    LET r == parseJWTUnguarded(t) IN
    IF r.kind = "throw" THEN Returned(None) ELSE r

\* the parsed payload, or None for null
parseJWT(t) == Get(parseJWTOutcome(t).value)

getTokenAge(t, clock) ==
    LET payload == parseJWT(t) IN
    IF payload = None \/ ~TruthyNum(Get(payload).iat) THEN None
    ELSE Some(clock - Get(Get(payload).iat))

isTokenExpired(t, clock) ==
    LET payload == parseJWT(t) IN
    IF payload = None \/ ~TruthyNum(Get(payload).exp) THEN None
    ELSE Some(Get(Get(payload).exp) < clock)

BaseDelay == 1000
MaxDelay == 10000
JitterRange == 1000
\* Math.random() * 1000 lies in [0, 1000)
Jitters == {0, JitterRange - 1}
getBackoffDelay(att, jitter) == Min(BaseDelay * Pow2(att), MaxDelay) + jitter

-----------------------------------------------------------------------------
(* Client configuration (client.ts, ModelSignatureClient)                  *)

DefaultApiBaseUrl == "https://modelsignature-api-541734326273.us-central1.run.app"
DefaultTimeout == 10000
DefaultRetries == 3

\* a ModelSignatureConfig argument: every key is None (absent) or Some(v)
ClientArg(base, timeout, retries) ==
    [apiBaseUrl |-> base, timeout |-> timeout, retries |-> retries]

ClientCtorArgs ==
    { ClientArg(None, None, r) : r \in {None, Some(0), Some(1)} }

ClientConstructor(config) ==
    [apiBaseUrl |-> IF TruthyStr(config.apiBaseUrl)
                    THEN Get(config.apiBaseUrl) ELSE <<DefaultApiBaseUrl>>,
     timeout |-> IF TruthyNum(config.timeout)
                 THEN Get(config.timeout) ELSE DefaultTimeout,
     retries |-> IF TruthyNum(config.retries)
                 THEN Get(config.retries) ELSE DefaultRetries]

\* variant: the partial is merged over the constructor's defaults, not over
\* the current configuration
ClientMergeOverDefaults(base, partial) == ClientConstructor(partial)

\* { ...this.config, ...config }
ClientMerge(base, partial) ==
    [apiBaseUrl |-> IF partial.apiBaseUrl # None
                    THEN Get(partial.apiBaseUrl) ELSE base.apiBaseUrl,
     timeout |-> IF partial.timeout # None
                 THEN Get(partial.timeout) ELSE base.timeout,
     retries |-> IF partial.retries # None
                 THEN Get(partial.retries) ELSE base.retries]

ClientPartials ==
    { ClientArg(Some(<<"https://staging.example">>), Some(5000), Some(1)) }

-----------------------------------------------------------------------------
(* Policy configuration (client.ts, PolicyEnforcer and the presets)        *)

PolicyFields ==
    {"requireDeploymentId", "requireModelDigest", "requireBundleVerification",
     "allowedProviders", "allowedModels", "maxTokenAge", "failClosed"}

\* A PolicyConfig argument maps each key to None (key absent) or Some(v);
\* the value of maxTokenAge is itself optional (maxTokenAge: undefined).
NoPolicy == [f \in PolicyFields |-> None]

\* object spread: the keys present in `over` replace those of `base`
Spread(base, over) ==
    [f \in PolicyFields |-> IF over[f] # None THEN over[f] ELSE base[f]]

\* a resolved configuration, read through this.config.<field>
Resolve(arg) ==
    [requireDeploymentId |-> Get(arg["requireDeploymentId"]),
     requireModelDigest |-> Get(arg["requireModelDigest"]),
     requireBundleVerification |-> Get(arg["requireBundleVerification"]),
     allowedProviders |-> Get(arg["allowedProviders"]),
     allowedModels |-> Get(arg["allowedModels"]),
     maxTokenAge |-> Get(arg["maxTokenAge"]),
     failClosed |-> Get(arg["failClosed"])]

PolicyDefaults ==
    [f \in PolicyFields |->
        CASE f = "allowedProviders" -> Some(<<>>)
          [] f = "allowedModels" -> Some(<<>>)
          [] f = "maxTokenAge" -> Some(Some(900))
          [] f = "failClosed" -> Some(TRUE)
          [] OTHER -> Some(FALSE)]

SecureDefaults ==
    [f \in PolicyFields |->
        CASE f = "failClosed" -> Some(TRUE)
          [] f = "requireDeploymentId" -> Some(TRUE)
          [] f = "requireModelDigest" -> Some(TRUE)
          [] f = "maxTokenAge" -> Some(Some(300))
          [] OTHER -> None]

LenientDefaults ==
    [f \in PolicyFields |->
        CASE f = "failClosed" -> Some(FALSE)
          [] f = "requireDeploymentId" -> Some(FALSE)
          [] f = "requireModelDigest" -> Some(FALSE)
          [] f = "maxTokenAge" -> Some(Some(3600))
          [] OTHER -> None]

PolicyConstructor(config) == Resolve(Spread(PolicyDefaults, config))

\* variant: the preset is spread after the caller's configuration
createSecurePolicyPresetWins(config) ==
    PolicyConstructor(Spread(config, SecureDefaults))

createSecurePolicy(config) == PolicyConstructor(Spread(SecureDefaults, config))
createLenientPolicy(config) == PolicyConstructor(Spread(LenientDefaults, config))

\* this.config = { ...this.config, ...config }
PolicyMerge(base, partial) ==
    [requireDeploymentId |->
        IF partial["requireDeploymentId"] # None
        THEN Get(partial["requireDeploymentId"]) ELSE base.requireDeploymentId,
     requireModelDigest |->
        IF partial["requireModelDigest"] # None
        THEN Get(partial["requireModelDigest"]) ELSE base.requireModelDigest,
     requireBundleVerification |->
        IF partial["requireBundleVerification"] # None
        THEN Get(partial["requireBundleVerification"])
        ELSE base.requireBundleVerification,
     allowedProviders |->
        IF partial["allowedProviders"] # None
        THEN Get(partial["allowedProviders"]) ELSE base.allowedProviders,
     allowedModels |->
        IF partial["allowedModels"] # None
        THEN Get(partial["allowedModels"]) ELSE base.allowedModels,
     maxTokenAge |->
        IF partial["maxTokenAge"] # None
        THEN Get(partial["maxTokenAge"]) ELSE base.maxTokenAge,
     failClosed |->
        IF partial["failClosed"] # None
        THEN Get(partial["failClosed"]) ELSE base.failClosed]

\* Arrays are objects: a spread copies the reference to an array, not the
\* array.  Each place that creates an array names it: the arrays inside the
\* constructor's argument, the [] literals of the constructor's defaults, the
\* arrays inside an updateConfig argument.
ListFields == {"allowedProviders", "allowedModels"}
Refs == { [site |-> site, field |-> f] :
            site \in {"argument", "default", "partial"}, f \in ListFields }
Ref(site, f) == [site |-> site, field |-> f]

\* { ...defaults, ...config }: the argument's array when the key is present
ConstructedRefs(ctor) ==
    [f \in ListFields |->
        IF ctor.config[f] # None THEN Ref("argument", f) ELSE Ref("default", f)]

ConstructedHeap(ctor) ==
    [r \in Refs |->
        IF r.site = "argument" /\ ctor.config[r.field] # None
        THEN Get(ctor.config[r.field]) ELSE <<>>]

\* { ...this.config, ...config }: the partial's array when the key is present
UpdatedRefs(refs, partial) ==
    [f \in ListFields |->
        IF partial[f] # None THEN Ref("partial", f) ELSE refs[f]]

UpdatedHeap(h, partial) ==
    [r \in Refs |->
        IF r.site = "partial" /\ partial[r.field] # None
        THEN Get(partial[r.field]) ELSE h[r]]

\* this.config read through its references
Dereferenced(cfg, refs, h) ==
    [cfg EXCEPT !.allowedProviders = h[refs["allowedProviders"]],
                !.allowedModels = h[refs["allowedModels"]]]

\* an object in the caller's hands: the arrays it refers to (None for a key
\* it does not have) and its failClosed field
HeldObject(providers, models, failClosed) ==
    [allowedProviders |-> providers, allowedModels |-> models,
     failClosed |-> failClosed]

\* the object the caller passed to the constructor
ArgumentObject(ctor) ==
    HeldObject(
        IF ctor.config["allowedProviders"] # None
        THEN Some(Ref("argument", "allowedProviders")) ELSE None,
        IF ctor.config["allowedModels"] # None
        THEN Some(Ref("argument", "allowedModels")) ELSE None,
        ctor.config["failClosed"])

\* getConfig(): { ...this.config }, a new object referring to the same arrays
getConfigObject(cfg, refs) ==
    HeldObject(Some(refs["allowedProviders"]), Some(refs["allowedModels"]),
               Some(cfg.failClosed))

\* the configurations given to the constructor and the presets
With(arg, f, v) == [arg EXCEPT ![f] = Some(v)]

FailOpen == With(NoPolicy, "failClosed", FALSE)
NeedDeployment == With(NoPolicy, "requireDeploymentId", TRUE)
Strict ==
    With(With(With(With(With(With(NoPolicy,
        "requireDeploymentId", TRUE),
        "requireModelDigest", TRUE),
        "requireBundleVerification", TRUE),
        "allowedProviders", <<"p1">>),
        "allowedModels", <<"m1">>),
        "maxTokenAge", Some(300))

PolicyArgs ==
    { NoPolicy,
      FailOpen,
      With(NeedDeployment, "failClosed", FALSE),
      With(FailOpen, "maxTokenAge", None),
      Strict,
      With(Strict, "failClosed", FALSE) }

PolicyCtors ==
    { [factory |-> "PolicyEnforcer", config |-> a] : a \in PolicyArgs }
    \cup { [factory |-> "createSecurePolicy", config |-> NoPolicy] }
    \cup { [factory |-> "createLenientPolicy", config |-> NoPolicy] }

Construct(ctor) ==
    CASE ctor.factory = "PolicyEnforcer" -> PolicyConstructor(ctor.config)
      [] ctor.factory = "createSecurePolicy" -> createSecurePolicy(ctor.config)
      [] ctor.factory = "createLenientPolicy" -> createLenientPolicy(ctor.config)

PolicyPartials ==
    { With(With(NoPolicy, "requireModelDigest", TRUE), "failClosed", FALSE) }

-----------------------------------------------------------------------------
(* What the authority and the network may answer                           *)

\* response.status of a non-2xx response, and its response.statusText
ErrorStatuses == {400, 499, 500}
StatusText(s) ==
    CASE s = 400 -> "Bad Request"
      [] s = 499 -> "Client Closed Request"
      [] s = 500 -> "Internal Server Error"
      [] OTHER -> "Unknown"

\* the body of a non-2xx response: parses says whether response.json()
\* resolves; detail and error are the fields of the parsed document
ErrorBody(parses, detail, error) ==
    [parses |-> parses, detail |-> detail, error |-> error]

ErrorBodies ==
    { ErrorBody(TRUE, Some(<<"Invalid token">>), Some(<<"ignored">>)),
      ErrorBody(TRUE, Some(<<"Traceback:", NL, "upstream failed">>), None),
      ErrorBody(TRUE, None, Some(<<"Service unavailable">>)),
      ErrorBody(TRUE, Some(<<>>), Some(<<"Rate limited">>)),
      ErrorBody(TRUE, None, None),
      ErrorBody(FALSE, None, None) }

\* what fetch rejects with when the network fails, and when the timeout
\* timer aborts the request
NetworkError == NativeError("TypeError", <<"Network error">>)
AbortError == NativeError("AbortError", <<"This operation was aborted">>)
\* what response.json() throws on a body that is not JSON
SyntaxError == NativeError("SyntaxError", <<"Unexpected token < in JSON">>)

\* the JSON documents a 2xx answer to /api/v1/jwt/verify may carry
Claims(deployment, digest, iat) ==
    [deployment_id |-> deployment, model_digest |-> digest, iat |-> iat]

Verification(valid, claims, model, provider, bundle, error) ==
    [valid |-> valid, claims |-> claims, model |-> model,
     provider |-> provider, bundle_check |-> bundle, error |-> error]

VFull ==
    Verification(TRUE,
        Some(Claims(Some(<<"dep-1">>), Some(<<"sha256:ab">>), Some(Epoch - 60))),
        Some("m1"), Some("p1"), Some("verified"), None)
VBare ==
    Verification(TRUE, Some(Claims(None, None, Some(Epoch - 60))),
        Some("m1"), Some("p1"), None, None)
VOther ==
    Verification(TRUE, Some(Claims(Some(<<"dep-1">>), None, Some(Epoch - 4000))),
        Some("m2"), Some("p2"), Some("invalid"), None)
VAnonymous ==
    Verification(TRUE, Some(Claims(None, Some(<<"sha256:ab">>), Some(Epoch - 60))),
        None, None, Some("unknown"), None)
VNoClaims == Verification(TRUE, None, Some("m1"), Some("p1"), None, None)
VInvalid ==
    Verification(FALSE, None, None, None, None, Some(<<"Token expired">>))
VInvalidNoError == Verification(FALSE, None, None, None, None, None)

\* a parsed 2xx body: None is the JSON value null
VerifyBodies ==
    { Some(VFull), Some(VBare), Some(VOther), Some(VAnonymous),
      Some(VNoClaims), Some(VInvalid), Some(VInvalidNoError), None }

-----------------------------------------------------------------------------
(* ModelSignatureClient.makeRequest (client.ts)                            *)

\* the message of the error thrown for a non-2xx response
\* variant: the error field is preferred to the detail field
HttpErrorMessageErrorFirst(st, body) ==
    IF body.parses /\ TruthyStr(body.error) THEN Get(body.error)
    ELSE IF body.parses /\ TruthyStr(body.detail) THEN Get(body.detail)
    ELSE <<"HTTP ", ToString(st), ": ", StatusText(st)>>

HttpErrorMessage(st, body) ==
    IF body.parses /\ TruthyStr(body.detail) THEN Get(body.detail)
    ELSE IF body.parses /\ TruthyStr(body.error) THEN Get(body.error)
    ELSE <<"HTTP ", ToString(st), ": ", StatusText(st)>>

HttpError(st, body) ==
    ModelSignatureError(HttpErrorMessage(st, body), Some("HTTP_ERROR"), Some(st))

\* the error thrown after the loop; lastError is still unassigned when the
\* loop body never ran, and reading its message then throws a TypeError
RequestFailed(retries, last) ==
    IF last = None
    THEN NativeError("TypeError",
            <<"Cannot read properties of undefined (reading 'message')">>)
    ELSE ModelSignatureError(
            <<"Request failed after ", ToString(retries + 1), " attempts: ">>
                \o Get(last).message,
            Some("REQUEST_FAILED"), None)

\* variant: only statuses below 400 end the call at once
IsTerminalBelow400(e) ==
    IsModelSignatureError(e) /\ TruthyNum(e.statusCode) /\ Get(e.statusCode) < 400

\* the catch clause's first test: a client error is thrown on at once
IsTerminal(e) ==
    IsModelSignatureError(e) /\ TruthyNum(e.statusCode) /\ Get(e.statusCode) < 500

\* the catch clause's second test: no wait after the last attempt
IsLastAttempt(att, retries) == att = retries

\* the loop condition
LoopContinues(att, retries) == att <= retries

\* how a failed attempt is logged: "client" is a non-2xx response with
\* status < 500; "failed" is every other failure (a network error, a timeout,
\* a response with status >= 500, a 2xx response whose body does not parse)
AttemptKind(e) ==
    IF e.statusCode # None /\ Get(e.statusCode) < 500 THEN "client" ELSE "failed"

\* The promise of verifyToken / bindResponse settles with r: the public call
\* o is over, or enforcePolicy (called directly or by quickCheck) has its
\* continuation to run.
Settle(o, r) ==
    IF o \in {"enforcePolicy", "quickCheck"}
    THEN pc' = "resume" /\ settled' = r /\ outcome' = Pending
    ELSE pc' = "done" /\ settled' = Pending /\ outcome' = r

\* the endpoint argument of makeRequest (the token is left out of the path)
Endpoint(o) ==
    IF o = "bindResponse" THEN <<"/api/v1/jwt/", "/bind-response">>
    ELSE <<"/api/v1/jwt/verify/">>

\* makeRequest from its first line to its first await: the loop is entered
\* and the first fetch issued with its timeout timer armed
StartRequest(o) ==
    /\ attempt' = 0
    /\ lastError' = None
    /\ status' = 0
    /\ log' = <<>>
    /\ unparsed' = FALSE
    /\ waits' = 0
    /\ delay' = 0
    /\ overdue' = FALSE
    /\ url' = Some(clientConfig.apiBaseUrl \o Endpoint(o))
    /\ errorData' = None
    /\ IF LoopContinues(0, clientConfig.retries)
       THEN /\ fetches' = 1
            /\ timer' = clientConfig.timeout
            /\ pc' = "fetch"
            /\ settled' = Pending
            /\ outcome' = Pending
       ELSE /\ fetches' = 0
            /\ timer' = 0
            /\ Settle(o, Thrown(RequestFailed(clientConfig.retries, None)))

\* the catch clause of the loop body, for the error e of this attempt
Catch(e) ==
    /\ lastError' = Some(e)
    /\ log' = Append(log, AttemptKind(e))
    /\ unparsed' = (unparsed \/ e.name = "SyntaxError")
    /\ status' = 0
    /\ overdue' = FALSE
    /\ UNCHANGED <<attempt, fetches, url, timer>>
    /\ IF IsTerminal(e)
       THEN /\ UNCHANGED <<waits, delay>>
            /\ Settle(op, Thrown(e))
       ELSE IF IsLastAttempt(attempt, clientConfig.retries)
       THEN /\ UNCHANGED <<waits, delay>>
            /\ Settle(op, Thrown(RequestFailed(clientConfig.retries, Some(e))))
       ELSE /\ \E jitter \in Jitters : delay' = getBackoffDelay(attempt, jitter)
            /\ waits' = waits + 1
            /\ pc' = "sleep"
            /\ UNCHANGED <<settled, outcome>>

callVars ==
    <<op, token, encoded, responseText, rules, startPolicy, startConfig>>

\* fetch rejects: the network failed
FetchNetworkError ==
    /\ pc = "fetch"
    /\ Catch(NetworkError)
    /\ UNCHANGED <<configVars, callVars, usedPolicy, now, errorData>>

\* the timeout timer, armed before fetch, fires before fetch resolved:
\* controller.abort() makes fetch reject
FetchTimeout ==
    /\ pc = "fetch"
    /\ Catch(AbortError)
    /\ UNCHANGED <<configVars, callVars, usedPolicy, now, errorData>>

\* fetch resolves with the response's status line; clearTimeout(timeoutId)
\* disarms the timer, so that nothing aborts the reading of the body
FetchResponds ==
    /\ pc = "fetch"
    /\ \E st \in ErrorStatuses \cup {200} :
          /\ status' = st
          /\ pc' = IF st = 200 THEN "body" ELSE "errbody"
    /\ UNCHANGED <<configVars, callVars, usedPolicy, now, attempt, lastError,
                   fetches, log, unparsed, waits, delay, overdue, url, timer,
          errorData,
                   settled, outcome>>

\* this.config.timeout milliseconds have passed since the attempt began
\* while response.json() is still pending: the timer was cleared, no
\* callback runs, and the attempt stays pending
TimeoutPassesUnarmed ==
    /\ pc \in {"body", "errbody"}
    /\ ~overdue
    /\ overdue' = TRUE
    /\ UNCHANGED <<configVars, callVars, usedPolicy, now, attempt, lastError,
                   status, fetches, log, unparsed, waits, delay, url, timer,
          errorData,
                   settled, outcome, pc>>

\* the bodies a 2xx answer to the call may carry
Binding == Some([response_hash |-> "abc123", bound_token |-> "bound.jwt.token"])
BodiesFor(o) == IF o = "bindResponse" THEN {Binding} ELSE VerifyBodies

\* variant: the data of a 2xx response is not returned, the loop goes on to
\* its next iteration
BodyArrivesNoReturn ==
    /\ pc = "body"
    /\ log' = Append(log, "ok")
    /\ status' = 0
    /\ attempt' = attempt + 1
    /\ IF LoopContinues(attempt + 1, clientConfig.retries)
       THEN /\ fetches' = fetches + 1
            /\ timer' = clientConfig.timeout
            /\ pc' = "fetch"
            /\ UNCHANGED <<lastError, settled, outcome>>
       ELSE /\ fetches' = fetches
            /\ timer' = timer
            /\ lastError' = lastError
            /\ Settle(op, Thrown(RequestFailed(clientConfig.retries, lastError)))
    /\ overdue' = FALSE
    /\ UNCHANGED <<configVars, callVars, usedPolicy, now, unparsed, waits, delay,
                   url, errorData>>

\* response.json() of a 2xx response resolves: makeRequest returns the data
\* (and its local lastError is gone with it)
BodyArrives ==
    /\ pc = "body"
    /\ \E data \in BodiesFor(op) : Settle(op, Returned(data))
    /\ log' = Append(log, "ok")
    /\ status' = 0
    /\ lastError' = None
    /\ overdue' = FALSE
    /\ UNCHANGED <<configVars, callVars, usedPolicy, now, attempt, fetches,
                   unparsed, waits, delay, url, timer,
          errorData>>

\* variant: the SyntaxError of response.json() is thrown on at once, like a
\* client error
BodyUnparseableTerminal ==
    /\ pc = "body"
    /\ lastError' = Some(SyntaxError)
    /\ log' = Append(log, "failed")
    /\ unparsed' = TRUE
    /\ status' = 0
    /\ overdue' = FALSE
    /\ Settle(op, Thrown(SyntaxError))
    /\ UNCHANGED <<configVars, callVars, usedPolicy, now, errorData, attempt,
                   fetches, url, timer, waits, delay>>

\* response.json() of a 2xx response throws
BodyUnparseable ==
    /\ pc = "body"
    /\ Catch(SyntaxError)
    /\ UNCHANGED <<configVars, callVars, usedPolicy, now, errorData>>

\* the body of a non-2xx response has been read (or could not be parsed)
ErrorBodyArrives ==
    /\ pc = "errbody"
    /\ \E body \in ErrorBodies :
          /\ errorData' = Some(body)
          /\ Catch(HttpError(status, body))
    /\ UNCHANGED <<configVars, callVars, usedPolicy, now>>

\* sleep(delay) resolves: attempt++ and the loop condition is tested
Wake ==
    /\ pc = "sleep"
    /\ attempt' = attempt + 1
    /\ delay' = 0
    /\ IF LoopContinues(attempt + 1, clientConfig.retries)
       THEN /\ fetches' = fetches + 1
            /\ timer' = clientConfig.timeout
            /\ pc' = "fetch"
            /\ UNCHANGED <<lastError, settled, outcome>>
       ELSE /\ fetches' = fetches
            /\ timer' = timer
            /\ lastError' = lastError
            /\ Settle(op, Thrown(RequestFailed(clientConfig.retries, lastError)))
    /\ errorData' = None
    /\ UNCHANGED <<configVars, callVars, usedPolicy, now, status, log,
                   unparsed, waits, overdue, url>>

-----------------------------------------------------------------------------
(* PolicyEnforcer (client.ts)                                              *)

Includes(list, x) == \E i \in 1..Len(list) : list[i] = x

ReasonNoClaims == <<"No claims found in token">>
ReasonNoAge == <<"Unable to determine token age">>
ReasonTooOld(age, max) ==
    <<"Token is too old: ", ToString(age), "s > ", ToString(max), "s">>
ReasonDeployment == <<"Deployment ID is required but not present in token">>
ReasonDigest == <<"Model digest is required but not present in token">>
ReasonNoBundle ==
    <<"Bundle verification is required but no bundle information available">>
ReasonBundle(st) == <<"Bundle verification failed: status is '", st, "'">>
ReasonProvider(id) == <<"Provider '", id, "' is not in allowed list">>
ReasonModel(id) == <<"Model '", id, "' is not in allowed list">>
ReasonInvalid(error) == <<"Token verification failed: ">> \o Str(error)
ReasonRequest(message) == <<"Verification request failed: ">> \o message

\* x?.id || 'unknown'
IdOrUnknown(x) == IF x = None \/ Get(x) = "" THEN "unknown" ELSE Get(x)

\* variant: the age rule flags a token whose age equals the maximum
CheckAgeInclusive(cfg, tok, clock) ==
    IF cfg.maxTokenAge = None THEN <<>>
    ELSE LET tokenAge == getTokenAge(tok, clock) IN
         IF tokenAge = None THEN <<ReasonNoAge>>
         ELSE IF Get(tokenAge) >= Get(cfg.maxTokenAge)
         THEN <<ReasonTooOld(Get(tokenAge), Get(cfg.maxTokenAge))>>
         ELSE <<>>

\* each rule of checkTokenPolicy: the reasons it pushes
CheckAge(cfg, tok, clock) ==
    IF cfg.maxTokenAge = None THEN <<>>
    ELSE LET tokenAge == getTokenAge(tok, clock) IN
         IF tokenAge = None THEN <<ReasonNoAge>>
         ELSE IF Get(tokenAge) > Get(cfg.maxTokenAge)
         THEN <<ReasonTooOld(Get(tokenAge), Get(cfg.maxTokenAge))>>
         ELSE <<>>

\* variant: the deployment rule looks at the model digest
CheckDeploymentWrongField(cfg, claims) ==
    IF cfg.requireDeploymentId /\ ~TruthyStr(claims.model_digest)
    THEN <<ReasonDeployment>> ELSE <<>>

CheckDeployment(cfg, claims) ==
    IF cfg.requireDeploymentId /\ ~TruthyStr(claims.deployment_id)
    THEN <<ReasonDeployment>> ELSE <<>>

CheckDigest(cfg, claims) ==
    IF cfg.requireModelDigest /\ ~TruthyStr(claims.model_digest)
    THEN <<ReasonDigest>> ELSE <<>>

\* variant: a bundle of status 'unknown' passes
CheckBundleAcceptsUnknown(cfg, bundleCheck) ==
    IF ~cfg.requireBundleVerification THEN <<>>
    ELSE IF bundleCheck = None THEN <<ReasonNoBundle>>
    ELSE IF Get(bundleCheck) \notin {"verified", "unknown"}
    THEN <<ReasonBundle(Get(bundleCheck))>>
    ELSE <<>>

CheckBundle(cfg, bundleCheck) ==
    IF ~cfg.requireBundleVerification THEN <<>>
    ELSE IF bundleCheck = None THEN <<ReasonNoBundle>>
    ELSE IF Get(bundleCheck) # "verified" THEN <<ReasonBundle(Get(bundleCheck))>>
    ELSE <<>>

\* variant: a response without provider passes the allowlist
CheckProviderAbsentPasses(cfg, provider) ==
    IF Len(cfg.allowedProviders) > 0
       /\ provider # None /\ ~Includes(cfg.allowedProviders, Get(provider))
    THEN <<ReasonProvider(IdOrUnknown(provider))>> ELSE <<>>

CheckProvider(cfg, provider) ==
    IF Len(cfg.allowedProviders) > 0
       /\ (provider = None \/ ~Includes(cfg.allowedProviders, Get(provider)))
    THEN <<ReasonProvider(IdOrUnknown(provider))>> ELSE <<>>

CheckModel(cfg, model) ==
    IF Len(cfg.allowedModels) > 0
       /\ (model = None \/ ~Includes(cfg.allowedModels, Get(model)))
    THEN <<ReasonModel(IdOrUnknown(model))>> ELSE <<>>

\* variant of checkTokenPolicy: the rules go on after the missing claims
checkTokenPolicyNoReturn(cfg, tok, verification, clock) ==
    IF verification.claims = None
    THEN <<ReasonNoClaims>>
         \o CheckAge(cfg, tok, clock)
         \o CheckBundle(cfg, verification.bundle_check)
         \o CheckProvider(cfg, verification.provider)
         \o CheckModel(cfg, verification.model)
    ELSE LET claims == Get(verification.claims) IN
         CheckAge(cfg, tok, clock)
         \o CheckDeployment(cfg, claims)
         \o CheckDigest(cfg, claims)
         \o CheckBundle(cfg, verification.bundle_check)
         \o CheckProvider(cfg, verification.provider)
         \o CheckModel(cfg, verification.model)

\* variant of checkTokenPolicy: it returns after the first rule that pushed
checkTokenPolicyFirstOnly(cfg, tok, verification, clock) ==
    LET all == IF verification.claims = None THEN <<ReasonNoClaims>>
               ELSE LET claims == Get(verification.claims) IN
                    CheckAge(cfg, tok, clock)
                    \o CheckDeployment(cfg, claims)
                    \o CheckDigest(cfg, claims)
                    \o CheckBundle(cfg, verification.bundle_check)
                    \o CheckProvider(cfg, verification.provider)
                    \o CheckModel(cfg, verification.model)
    IN IF all = <<>> THEN <<>> ELSE <<all[1]>>

\* the violations checkTokenPolicy pushes, in order
checkTokenPolicy(cfg, tok, verification, clock) ==
    IF verification.claims = None THEN <<ReasonNoClaims>>
    ELSE LET claims == Get(verification.claims) IN
         CheckAge(cfg, tok, clock)
         \o CheckDeployment(cfg, claims)
         \o CheckDigest(cfg, claims)
         \o CheckBundle(cfg, verification.bundle_check)
         \o CheckProvider(cfg, verification.provider)
         \o CheckModel(cfg, verification.model)

buildResult(allowed, violations, verification) ==
    [allowed |-> allowed, reasons |-> violations, verification |-> verification]

\* errorMessage.match(/attempts: (.+)$/) inside the two includes() tests:
\* the text after the leftmost "attempts: " that is followed, up to the end
\* of the string, by at least one character and no line terminator
StripRetryWrapper(message) ==
    IF Includes(message, "Request failed after ")
       /\ Includes(message, " attempts: ")
    THEN LET matches ==
                { i \in 1..Len(message) :
                    /\ message[i] = " attempts: "
                    /\ i < Len(message)
                    /\ \A k \in (i + 1)..Len(message) : message[k] # NL }
         IN IF matches = {} THEN message
            ELSE LET first == CHOOSE i \in matches : \A k \in matches : i <= k
                 IN SubSeq(message, first + 1, Len(message))
    ELSE message

\* variant: a single violation still counts as allowed
DisposeOffByOne(cfg, violations, verification) ==
    LET allowed == Len(violations) <= 1
        result == buildResult(allowed, violations, verification)
    IN IF ~allowed /\ cfg.failClosed
       THEN Thrown(PolicyViolationError(
                <<"Policy violation: ">> \o Join(violations, <<", ">>),
                violations))
       ELSE Returned(result)

\* the lines after the try/catch: the result is built, and thrown instead of
\* returned when the policy is violated and failClosed is set
Dispose(cfg, violations, verification) ==
    LET allowed == violations = <<>>
        result == buildResult(allowed, violations, verification)
    IN IF ~allowed /\ cfg.failClosed
       THEN Thrown(PolicyViolationError(
                <<"Policy violation: ">> \o Join(violations, <<", ">>),
                violations))
       ELSE Returned(result)

\* variant: no catch clause, the transport's error propagates
EnforceCatchRethrows(cfg, e) == Thrown(e)

\* variant: the catch clause handles ModelSignatureError only, any other
\* exception propagates
EnforceCatchOwnErrorsOnly(cfg, e) ==
    IF IsModelSignatureError(e)
    THEN Dispose(cfg, <<ReasonRequest(StripRetryWrapper(e.message))>>,
                 Verification(FALSE, None, None, None, None,
                              Some(StripRetryWrapper(e.message))))
    ELSE Thrown(e)

\* the catch clause of enforcePolicy, for the error e
EnforceCatch(cfg, e) ==
    LET errorMessage == StripRetryWrapper(e.message) IN
    Dispose(cfg, <<ReasonRequest(errorMessage)>>,
            Verification(FALSE, None, None, None, None, Some(errorMessage)))

NullDereference ==
    NativeError("TypeError", <<"Cannot read properties of null (reading 'valid')">>)

\* variant: no early return for valid:false, the result goes through the
\* fail-closed disposition like every other violation
enforcePolicyNoEarlyReturn(cfg, tok, r, clock) ==
    IF r.kind = "throw" THEN EnforceCatch(cfg, Get(r.error))
    ELSE LET data == Get(r.value) IN
         IF data = None THEN EnforceCatch(cfg, NullDereference)
         ELSE LET verification == Get(data) IN
              IF ~verification.valid
              THEN Dispose(cfg, <<ReasonInvalid(verification.error)>>, verification)
              ELSE Dispose(cfg,
                        checkTokenPolicy(cfg, tok, verification, clock),
                        verification)

\* variant: the rules are checked for a valid:false response too
enforcePolicyChecksInvalid(cfg, tok, r, clock) ==
    IF r.kind = "throw" THEN EnforceCatch(cfg, Get(r.error))
    ELSE LET data == Get(r.value) IN
         IF data = None THEN EnforceCatch(cfg, NullDereference)
         ELSE LET verification == Get(data) IN
              IF ~verification.valid
              THEN Returned(buildResult(FALSE,
                        <<ReasonInvalid(verification.error)>>
                            \o checkTokenPolicy(cfg, tok, verification, clock),
                        verification))
              ELSE Dispose(cfg,
                        checkTokenPolicy(cfg, tok, verification, clock),
                        verification)

\* enforcePolicy from the point where client.verifyToken(token) has settled
\* with r, under configuration cfg and with the clock reading `clock`
enforcePolicy(cfg, tok, r, clock) ==
    IF r.kind = "throw" THEN EnforceCatch(cfg, Get(r.error))
    ELSE LET data == Get(r.value) IN
         IF data = None THEN EnforceCatch(cfg, NullDereference)
         ELSE LET verification == Get(data) IN
              IF ~verification.valid
              THEN Returned(buildResult(FALSE,
                        <<ReasonInvalid(verification.error)>>, verification))
              ELSE Dispose(cfg,
                        checkTokenPolicy(cfg, tok, verification, clock),
                        verification)

\* whether that continuation reads Date.now(): the age rule is reached
ReadsClock(cfg, tok, r) ==
    /\ r.kind = "return"
    /\ Get(r.value) # None
    /\ Get(Get(r.value)).valid
    /\ Get(Get(r.value)).claims # None
    /\ cfg.maxTokenAge # None
    /\ getTokenAge(tok, Epoch) # None

\* the rules argument of quickCheck: every key is None (absent) or Some(v)
QuickRule(deployment, digest, maxAge, providers) ==
    [requireDeployment |-> deployment, requireDigest |-> digest,
     maxAge |-> maxAge, allowedProviders |-> providers]

NoRules == QuickRule(None, None, None, None)

QuickRules ==
    { NoRules,
      QuickRule(Some(TRUE), None, None, None),
      QuickRule(Some(FALSE), Some(FALSE), Some(3600), Some(<<"p2">>)) }

\* a ?? b
Nullish(a, b) == IF a # None THEN Get(a) ELSE b

\* variant: the overrides are applied with || in place of ??, so that an
\* override of false gives way to the enforcer's own setting
tempConfigOr(cfg, r) ==
    [requireDeploymentId |->
        (r.requireDeployment = Some(TRUE)) \/ cfg.requireDeploymentId,
     requireModelDigest |->
        (r.requireDigest = Some(TRUE)) \/ cfg.requireModelDigest,
     requireBundleVerification |-> cfg.requireBundleVerification,
     allowedProviders |-> Nullish(r.allowedProviders, cfg.allowedProviders),
     allowedModels |-> cfg.allowedModels,
     maxTokenAge |-> IF TruthyNum(r.maxAge) THEN r.maxAge ELSE cfg.maxTokenAge,
     failClosed |-> FALSE]

\* tempConfig of quickCheck, built from this.config (cfg) and the rules
tempConfig(cfg, r) ==
    [requireDeploymentId |-> Nullish(r.requireDeployment, cfg.requireDeploymentId),
     requireModelDigest |-> Nullish(r.requireDigest, cfg.requireModelDigest),
     requireBundleVerification |-> cfg.requireBundleVerification,
     allowedProviders |-> Nullish(r.allowedProviders, cfg.allowedProviders),
     allowedModels |-> cfg.allowedModels,
     maxTokenAge |-> IF r.maxAge # None THEN r.maxAge ELSE cfg.maxTokenAge,
     failClosed |-> FALSE]

\* a resolved configuration given as a constructor argument: every key is
\* present
AsArgument(cfg) == [f \in PolicyFields |-> Some(cfg[f])]

\* new PolicyEnforcer(this.client, tempConfig): the temporary enforcer's
\* configuration
tempEnforcer(cfg, r) == PolicyConstructor(AsArgument(tempConfig(cfg, r)))

\* quickCheck from the point where the temporary enforcer's verifyToken has
\* settled with r: result.allowed, or false from the catch clause
quickCheck(temp, tok, r, clock) ==
    LET result == enforcePolicy(temp, tok, r, clock) IN
    IF result.kind = "return"
    THEN Returned(Get(result.value).allowed)
    ELSE Returned(FALSE)

-----------------------------------------------------------------------------
(* The public calls                                                        *)

InvalidFormat == ModelSignatureError(<<"Invalid token format">>, Some("INVALID_FORMAT"), None)
InvalidResponse ==
    ModelSignatureError(<<"Response text must be a non-empty string">>,
                        Some("INVALID_RESPONSE"), None)

\* responseText arguments: a text, the empty string, and a non-string (null)
ResponseTexts == {Some(<<"This is a test model response.">>), Some(<<>>), None}

CanCall == pc \in {"idle", "done"}

\* a call that settles before any request: nothing of makeRequest runs
NoRequest ==
    /\ attempt' = 0
    /\ lastError' = None
    /\ status' = 0
    /\ fetches' = 0
    /\ log' = <<>>
    /\ unparsed' = FALSE
    /\ waits' = 0
    /\ delay' = 0
    /\ overdue' = FALSE
    /\ url' = None
    /\ timer' = 0
    /\ errorData' = None

\* client.verifyToken(token)
verifyToken ==
    /\ CanCall
    /\ \E t \in ClientTokens :
          /\ token' = t
          /\ op' = "verifyToken"
          /\ IF ~isValidTokenFormat(t)
             THEN NoRequest /\ Settle("verifyToken", Thrown(InvalidFormat))
             ELSE StartRequest("verifyToken")
    /\ responseText' = None
    /\ rules' = NoRules
    /\ encoded' = None
    /\ startPolicy' = policyConfig
    /\ startConfig' = clientConfig
    /\ usedPolicy' = None
    /\ now' = 0
    /\ UNCHANGED configVars

\* variant: the responseText argument is checked before the token's format
bindResponseChecksTextFirst ==
    /\ CanCall
    /\ \E t \in BindTokens, text \in ResponseTexts :
          /\ token' = t
          /\ responseText' = text
          /\ op' = "bindResponse"
          /\ IF ~TruthyStr(text)
             THEN NoRequest /\ Settle("bindResponse", Thrown(InvalidResponse))
             ELSE IF ~isValidTokenFormat(t)
             THEN NoRequest /\ Settle("bindResponse", Thrown(InvalidFormat))
             ELSE StartRequest("bindResponse")
    /\ rules' = NoRules
    /\ encoded' = None
    /\ startPolicy' = policyConfig
    /\ startConfig' = clientConfig
    /\ usedPolicy' = None
    /\ now' = 0
    /\ UNCHANGED configVars

\* client.bindResponse(token, responseText)
bindResponse ==
    /\ CanCall
    /\ \E t \in BindTokens, text \in ResponseTexts :
          /\ token' = t
          /\ responseText' = text
          /\ op' = "bindResponse"
          /\ IF ~isValidTokenFormat(t)
             THEN NoRequest /\ Settle("bindResponse", Thrown(InvalidFormat))
             ELSE IF ~TruthyStr(text)
             THEN NoRequest /\ Settle("bindResponse", Thrown(InvalidResponse))
             ELSE StartRequest("bindResponse")
    /\ rules' = NoRules
    /\ encoded' = None
    /\ startPolicy' = policyConfig
    /\ startConfig' = clientConfig
    /\ usedPolicy' = None
    /\ now' = 0
    /\ UNCHANGED configVars

\* variant: verifyToken sends its request without testing the token's format
enforcePolicyCallSkipsFormat ==
    /\ CanCall
    /\ \E t \in Tokens :
          /\ token' = t
          /\ op' = "enforcePolicy"
          /\ StartRequest("enforcePolicy")
    /\ responseText' = None
    /\ rules' = NoRules
    /\ encoded' = None
    /\ startPolicy' = policyConfig
    /\ startConfig' = clientConfig
    /\ usedPolicy' = None
    /\ now' = 0
    /\ UNCHANGED configVars

\* enforcer.enforcePolicy(token), up to its await of client.verifyToken(token)
enforcePolicyCall ==
    /\ CanCall
    /\ \E t \in Tokens :
          /\ token' = t
          /\ op' = "enforcePolicy"
          /\ IF ~isValidTokenFormat(t)
             THEN NoRequest /\ Settle("enforcePolicy", Thrown(InvalidFormat))
             ELSE StartRequest("enforcePolicy")
    /\ responseText' = None
    /\ rules' = NoRules
    /\ encoded' = None
    /\ startPolicy' = policyConfig
    /\ startConfig' = clientConfig
    /\ usedPolicy' = None
    /\ now' = 0
    /\ UNCHANGED configVars

\* variant: the rules read this.config after the await, the fail-closed
\* disposition uses the failClosed captured when the call began
enforcePolicyResumeMixed ==
    /\ pc = "resume"
    /\ op = "enforcePolicy"
    /\ \E clock \in Epoch..(Epoch + ClockSpan) :
          /\ now' = IF ReadsClock(policyConfig, token, settled) THEN clock ELSE 0
          /\ outcome' =
                LET open == enforcePolicy(
                                [policyConfig EXCEPT !.failClosed = FALSE],
                                token, settled, clock)
                    result == Get(open.value)
                IN IF result.reasons = <<>> \/ ~result.verification.valid
                      \/ ~startPolicy.failClosed
                   THEN open
                   ELSE Dispose(startPolicy, result.reasons, result.verification)
    /\ usedPolicy' = Some(policyConfig)
    /\ pc' = "done"
    /\ UNCHANGED <<configVars, callVars, transportVars, settled>>

\* variant: a verification that threw after a single attempt is issued again
enforcePolicyResumeReverifies ==
    /\ pc = "resume"
    /\ op = "enforcePolicy"
    /\ IF settled.kind = "throw" /\ fetches = 1
       THEN /\ StartRequest("enforcePolicy")
            /\ UNCHANGED <<configVars, callVars, usedPolicy, now>>
       ELSE /\ \E clock \in Epoch..(Epoch + ClockSpan) :
                  /\ now' = IF ReadsClock(policyConfig, token, settled)
                            THEN clock ELSE 0
                  /\ outcome' = enforcePolicy(policyConfig, token, settled, clock)
            /\ usedPolicy' = Some(policyConfig)
            /\ pc' = "done"
            /\ UNCHANGED <<configVars, callVars, transportVars, settled>>

\* enforcePolicy resumes after its await, reads this.config and settles
enforcePolicyResume ==
    /\ pc = "resume"
    /\ op = "enforcePolicy"
    /\ \E clock \in Epoch..(Epoch + ClockSpan) :
          /\ now' = IF ReadsClock(policyConfig, token, settled) THEN clock ELSE 0
          /\ outcome' = enforcePolicy(policyConfig, token, settled, clock)
    /\ usedPolicy' = Some(policyConfig)
    /\ pc' = "done"
    /\ UNCHANGED <<configVars, callVars, transportVars, settled>>

\* variant: quickCheck installs tempConfig as the enforcer's own
\* configuration instead of building a temporary enforcer
quickCheckCallOverwrites ==
    /\ CanCall
    /\ \E t \in QuickTokens, r \in QuickRules :
          /\ token' = t
          /\ rules' = r
          /\ op' = "quickCheck"
          /\ usedPolicy' = Some(tempEnforcer(policyConfig, r))
          /\ policyConfig' = tempEnforcer(policyConfig, r)
          /\ IF ~isValidTokenFormat(t)
             THEN NoRequest /\ Settle("quickCheck", Thrown(InvalidFormat))
             ELSE StartRequest("quickCheck")
    /\ responseText' = None
    /\ encoded' = None
    /\ startPolicy' = policyConfig
    /\ startConfig' = clientConfig
    /\ now' = 0
    /\ UNCHANGED <<clientCtor, clientConfig, policyCtor, updates, heap,
                   configRefs, held>>

\* enforcer.quickCheck(token, rules), up to the await of the temporary
\* enforcer's client.verifyToken(token)
quickCheckCall ==
    /\ CanCall
    /\ \E t \in QuickTokens, r \in QuickRules :
          /\ token' = t
          /\ rules' = r
          /\ op' = "quickCheck"
          /\ usedPolicy' = Some(tempEnforcer(policyConfig, r))
          /\ IF ~isValidTokenFormat(t)
             THEN NoRequest /\ Settle("quickCheck", Thrown(InvalidFormat))
             ELSE StartRequest("quickCheck")
    /\ responseText' = None
    /\ encoded' = None
    /\ startPolicy' = policyConfig
    /\ startConfig' = clientConfig
    /\ now' = 0
    /\ UNCHANGED configVars

\* quickCheck resumes after the await and settles with a boolean
quickCheckResume ==
    /\ pc = "resume"
    /\ op = "quickCheck"
    /\ \E clock \in Epoch..(Epoch + ClockSpan) :
          /\ now' = IF ReadsClock(Get(usedPolicy), token, settled) THEN clock ELSE 0
          /\ outcome' = quickCheck(Get(usedPolicy), token, settled, clock)
    /\ pc' = "done"
    /\ UNCHANGED <<configVars, callVars, transportVars, settled, usedPolicy>>

callState == <<pc, op, token, encoded, responseText, rules, startPolicy,
               startConfig,
               usedPolicy, attempt,
               lastError, status, fetches, log, unparsed, waits, delay,
               overdue, url, timer,
          errorData, settled, now, outcome>>

\* client.updateConfig(partial), at any point between two steps of a call
clientUpdateConfig ==
    /\ updates < MaxUpdates
    /\ \E partial \in ClientPartials :
          clientConfig' = ClientMerge(clientConfig, partial)
    /\ updates' = updates + 1
    /\ UNCHANGED <<clientCtor, policyCtor, policyConfig, heap, configRefs, held,
                   callState>>

\* enforcer.updateConfig(partial), at any point between two steps of a call
policyUpdateConfig ==
    /\ updates < MaxUpdates
    /\ \E partial \in PolicyPartials :
          /\ policyConfig' = PolicyMerge(policyConfig, partial)
          /\ configRefs' = UpdatedRefs(configRefs, partial)
          /\ heap' = UpdatedHeap(heap, partial)
    /\ updates' = updates + 1
    /\ UNCHANGED <<clientCtor, clientConfig, policyCtor, held, callState>>

\* a synchronous call that makes no request: it settles at once with result;
\* clock is what Date.now() / 1000 reads during the call, 0 when it is not
\* part of the call
PlainCallFrom(name, t, result, clock, source) ==
    /\ CanCall
    /\ op' = name
    /\ token' = t
    /\ responseText' = None
    /\ rules' = NoRules
    /\ encoded' = source
    /\ startPolicy' = policyConfig
    /\ startConfig' = clientConfig
    /\ usedPolicy' = None
    /\ now' = clock
    /\ NoRequest
    /\ settled' = Pending
    /\ outcome' = result
    /\ pc' = "done"

\* a call on a token that no encoder of this model has just produced
PlainCallAt(name, t, result, clock) ==
    PlainCallFrom(name, t, result, clock, IF t = token THEN encoded ELSE None)

PlainCall(name, t, result) == PlainCallAt(name, t, result, 0)

\* client.getConfig(): a copy of this.config
clientGetConfig ==
    /\ PlainCall("client.getConfig", NonString, Returned(clientConfig))
    /\ UNCHANGED configVars

\* enforcer.getConfig(): a copy of this.config
policyGetConfig ==
    /\ PlainCall("enforcer.getConfig", NonString, Returned(policyConfig))
    /\ UNCHANGED configVars

\* const cfg = enforcer.getConfig(), the caller keeping the returned object
keepGetConfig ==
    /\ PlainCall("enforcer.getConfig", NonString, Returned(policyConfig))
    /\ held' = Some(getConfigObject(policyConfig, configRefs))
    /\ UNCHANGED <<clientCtor, clientConfig, policyCtor, policyConfig, updates,
                   heap, configRefs>>

\* cfg.failClosed = true on the object the caller holds: the object is not
\* this.config, so nothing of the enforcer changes
holderSetsFailClosed ==
    /\ held # None
    /\ Get(held).failClosed # Some(TRUE)
    /\ held' = Some([Get(held) EXCEPT !.failClosed = Some(TRUE)])
    /\ UNCHANGED <<clientCtor, clientConfig, policyCtor, policyConfig, updates,
                   heap, configRefs, callState>>

\* cfg.allowedProviders.push(x) or cfg.allowedModels.push(x) on the object
\* the caller holds, x a value the list does not have yet: the array grows,
\* for every object that refers to it
PushedValue(f) == IF f = "allowedProviders" THEN "p2" ELSE "m2"

holderPushes ==
    /\ held # None
    /\ \E f \in ListFields :
          /\ Get(held)[f] # None
          /\ \A i \in DOMAIN heap[Get(Get(held)[f])] :
                heap[Get(Get(held)[f])][i] # PushedValue(f)
          /\ heap' = [heap EXCEPT ![Get(Get(held)[f])] = Append(@, PushedValue(f))]
    /\ policyConfig' = Dereferenced(policyConfig, configRefs, heap')
    /\ UNCHANGED <<clientCtor, clientConfig, policyCtor, updates, configRefs,
                   held, callState>>

\* the constructor arguments and updateConfig arguments of the
\* configuration-only specification
AllClientCtorArgs ==
    { ClientArg(u, t, r) :
        u \in {None, Some(<<"https://api.example.test">>)},
        t \in {None, Some(0), Some(2000)},
        r \in {None, Some(0), Some(1)} }

AllClientPartials ==
    { ClientArg(None, Some(5000), None),
      ClientArg(None, None, Some(2)),
      ClientArg(Some(<<"https://other.example.test">>), Some(0), Some(0)) }

AllPolicyArgs ==
    PolicyArgs \cup
    { With(NoPolicy, "maxTokenAge", Some(600)),
      With(NoPolicy, "failClosed", TRUE),
      With(With(NoPolicy, "requireDeploymentId", FALSE), "allowedModels", <<"m2">>) }

AllPolicyCtors ==
    { [factory |-> f, config |-> a] :
        f \in {"PolicyEnforcer", "createSecurePolicy", "createLenientPolicy"},
        a \in AllPolicyArgs }

AllPolicyPartials ==
    PolicyPartials \cup
    { NeedDeployment,
      With(With(NoPolicy, "maxTokenAge", Some(60)), "allowedProviders", <<"p2">>) }

\* client.updateConfig(partial), with any of those partials
clientUpdateConfigAny ==
    /\ updates < MaxUpdates
    /\ \E partial \in AllClientPartials :
          clientConfig' = ClientMerge(clientConfig, partial)
    /\ updates' = updates + 1
    /\ UNCHANGED <<clientCtor, policyCtor, policyConfig, heap, configRefs, held,
                   callState>>

\* enforcer.updateConfig(partial), with any of those partials
policyUpdateConfigAny ==
    /\ updates < MaxUpdates
    /\ \E partial \in AllPolicyPartials :
          /\ policyConfig' = PolicyMerge(policyConfig, partial)
          /\ configRefs' = UpdatedRefs(configRefs, partial)
          /\ heap' = UpdatedHeap(heap, partial)
    /\ updates' = updates + 1
    /\ UNCHANGED <<clientCtor, clientConfig, policyCtor, held, callState>>

\* the arguments of the helpers of utils.ts: a non-string, and every string
\* of one to MaxParts segments drawn from CodecSegments
CodecSegments ==
    {SegOpaque, SegPayload(Some(Epoch - 60)), SegPadded(Some(Epoch - 60)),
     SegEmpty, SegBadChar, SegJsonNull,
     SegTimes(Some(0), Some(Epoch)), SegTimes(Some(Epoch + 1), Some(0))}

CodecInputs ==
    {NonString} \cup
    { StringToken(parts) :
        parts \in UNION { [1..n -> CodecSegments] : n \in 1..MaxParts } }

\* isValidTokenFormat(token)
isValidTokenFormatCall ==
    /\ PlainCall("isValidTokenFormat", token, Returned(isValidTokenFormat(token)))
    /\ UNCHANGED configVars

\* parseJWT(token)
parseJWTCall ==
    /\ PlainCall("parseJWT", token, parseJWTOutcome(token))
    /\ UNCHANGED configVars

\* Encoding a claims object into the middle segment of a token.  A string is
\* a sequence of code points; JSON.stringify leaves every code point of the
\* strings modelled here as it is, and the syntax of JSON is ASCII.
ClaimStrings == {<<>>, <<97>>, <<233>>, <<97, 8364>>}

RoundTripClaims ==
    { JsonClaims(iat, None, sub) :
        iat \in {None, Some(Epoch - 60)},
        sub \in {None} \cup {Some(str) : str \in ClaimStrings} }

\* the UTF-8 bytes of one code point of the basic multilingual plane
Utf8(cp) ==
    IF cp < 128 THEN <<cp>>
    ELSE IF cp < 2048 THEN <<192 + (cp \div 64), 128 + (cp % 64)>>
    ELSE <<224 + (cp \div 4096), 128 + ((cp \div 64) % 64), 128 + (cp % 64)>>

RECURSIVE Utf8Encode(_)
Utf8Encode(str) ==
    IF str = <<>> THEN <<>> ELSE Utf8(Head(str)) \o Utf8Encode(Tail(str))

\* btoa: one byte per code point, and an InvalidCharacterError for a code
\* point above 255
btoaThrows(str) == \E i \in 1..Len(str) : str[i] > 255
btoa(str) == [i \in 1..Len(str) |-> str[i]]

\* atob gives a binary string: one character per byte, of that code
atob(bytes) == [i \in 1..Len(bytes) |-> bytes[i]]

\* the bytes an encoder writes for a string
BytesOf(encoder, str) ==
    IF encoder = "btoa" THEN btoa(str) ELSE Utf8Encode(str)

\* JSON.parse(atob(segment)) for the segment holding the bytes of
\* JSON.stringify(c) as the encoder writes them
ParsedFromBytes(c, encoder) ==
    [c EXCEPT !.sub =
        IF @ = None THEN None ELSE Some(atob(BytesOf(encoder, Get(@))))]

\* the unpadded base64url text of a non-empty byte sequence
UnpaddedBase64Url == <<Alnum, "-", "_">>

EncodedToken(c, encoder) ==
    StringToken(<<SegOpaque,
                  Segment(UnpaddedBase64Url, ParsedFromBytes(c, encoder)),
                  SegOpaque>>)

\* createValidToken(c) of the policy tests: btoa(JSON.stringify(c)) with '+',
\* '/' and '=' rewritten
createValidToken ==
    /\ \E c \in RoundTripClaims :
          IF c.sub # None /\ btoaThrows(Get(c.sub))
          THEN PlainCallFrom("createValidToken", token,
                   Thrown(NativeError("InvalidCharacterError",
                                      <<"Invalid character">>)), 0, encoded)
          ELSE LET t == EncodedToken(c, "btoa") IN
               PlainCallFrom("createValidToken", t, Returned(t), 0,
                             Some([claims |-> c, encoder |-> "btoa"]))
    /\ UNCHANGED configVars

\* a token whose middle segment is the unpadded base64url of the UTF-8 JSON
\* document of c
encodeUtf8Token ==
    /\ \E c \in RoundTripClaims :
          LET t == EncodedToken(c, "utf8") IN
          PlainCallFrom("encodeUtf8Token", t, Returned(t), 0,
                        Some([claims |-> c, encoder |-> "utf8"]))
    /\ UNCHANGED configVars

\* isTokenExpired(token), with Date.now() / 1000 reading clock
isTokenExpiredCall ==
    /\ \E clock \in Epoch..(Epoch + ClockSpan) :
          PlainCallAt("isTokenExpired", token,
                      Returned(isTokenExpired(token, clock)), clock)
    /\ UNCHANGED configVars

\* getTokenAge(token), with Date.now() / 1000 reading clock
getTokenAgeCall ==
    /\ \E clock \in Epoch..(Epoch + ClockSpan) :
          PlainCallAt("getTokenAge", token,
                      Returned(getTokenAge(token, clock)), clock)
    /\ UNCHANGED configVars

-----------------------------------------------------------------------------
(* The specification                                                       *)

\* the enforcer as its constructor leaves it
EnforcerBuilt ==
    /\ policyConfig = Construct(policyCtor)
    /\ configRefs = ConstructedRefs(policyCtor)
    /\ heap = ConstructedHeap(policyCtor)

\* no call has been made yet
NoCallYet ==
    /\ pc = "idle"
    /\ op = "none"
    /\ encoded = None
    /\ responseText = None
    /\ rules = NoRules
    /\ startPolicy = policyConfig
    /\ startConfig = clientConfig
    /\ usedPolicy = None
    /\ attempt = 0
    /\ lastError = None
    /\ status = 0
    /\ fetches = 0
    /\ log = <<>>
    /\ unparsed = FALSE
    /\ waits = 0
    /\ delay = 0
    /\ overdue = FALSE
    /\ url = None
    /\ timer = 0
    /\ errorData = None
    /\ settled = Pending
    /\ now = 0
    /\ outcome = Pending

Init ==
    /\ clientCtor \in ClientCtorArgs
    /\ clientConfig = ClientConstructor(clientCtor)
    /\ policyCtor \in PolicyCtors
    /\ EnforcerBuilt
    /\ held = None
    /\ updates = 0
    /\ token = NonString
    /\ NoCallYet

Next ==
    \/ verifyToken
    \/ bindResponse
    \/ enforcePolicyCall
    \/ enforcePolicyResume
    \/ FetchNetworkError
    \/ FetchTimeout
    \/ FetchResponds
    \/ TimeoutPassesUnarmed
    \/ BodyArrives
    \/ BodyUnparseable
    \/ ErrorBodyArrives
    \/ Wake
    \/ clientUpdateConfig
    \/ policyUpdateConfig

Spec == Init /\ [][Next]_vars

\* The client alone, under the scheduling the runtime guarantees: a sleep's
\* timer fires (Wake), and an attempt's timeout timer fires while it is armed,
\* that is until fetch settles (FetchTimeout).  Nothing obliges the network
\* or the authority to act.
ClientInit ==
    /\ clientCtor \in ClientCtorArgs
    /\ clientConfig = ClientConstructor(clientCtor)
    /\ policyCtor = [factory |-> "PolicyEnforcer", config |-> NoPolicy]
    /\ EnforcerBuilt
    /\ held = None
    /\ updates = 0
    /\ token = NonString
    /\ NoCallYet

ClientNext ==
    \/ verifyToken
    \/ bindResponse
    \/ FetchNetworkError
    \/ FetchTimeout
    \/ FetchResponds
    \/ TimeoutPassesUnarmed
    \/ BodyArrives
    \/ BodyUnparseable
    \/ ErrorBodyArrives
    \/ Wake
    \/ clientUpdateConfig

FairSpec ==
    ClientInit /\ [][ClientNext]_vars /\ WF_vars(Wake) /\ WF_vars(FetchTimeout)

\* The enforcer used through quickCheck only: the temporary enforcer quickCheck
\* builds goes through the same client and the same transport.
QuickNext ==
    \/ quickCheckCall
    \/ quickCheckResume
    \/ FetchNetworkError
    \/ FetchTimeout
    \/ FetchResponds
    \/ TimeoutPassesUnarmed
    \/ BodyArrives
    \/ BodyUnparseable
    \/ ErrorBodyArrives
    \/ Wake
    \/ clientUpdateConfig
    \/ policyUpdateConfig

QuickSpec == Init /\ [][QuickNext]_vars

\* Construction, updateConfig and getConfig alone, over every constructor
\* argument and every partial.
ConfigInit ==
    /\ clientCtor \in AllClientCtorArgs
    /\ clientConfig = ClientConstructor(clientCtor)
    /\ policyCtor \in AllPolicyCtors
    /\ EnforcerBuilt
    /\ held = None
    /\ updates = 0
    /\ token = NonString
    /\ NoCallYet

ConfigNext ==
    \/ clientUpdateConfigAny
    \/ policyUpdateConfigAny
    \/ clientGetConfig
    \/ policyGetConfig

ConfigSpec == ConfigInit /\ [][ConfigNext]_vars

\* The enforcer and the configuration objects its caller still holds: the
\* constructor's argument at first, later what getConfig returned.
AliasCtors ==
    { [factory |-> "PolicyEnforcer", config |-> With(Strict, "failClosed", FALSE)],
      [factory |-> "PolicyEnforcer", config |-> FailOpen] }

AliasInit ==
    /\ clientCtor = ClientArg(None, None, Some(0))
    /\ clientConfig = ClientConstructor(clientCtor)
    /\ policyCtor \in AliasCtors
    /\ EnforcerBuilt
    /\ held = Some(ArgumentObject(policyCtor))
    /\ updates = 0
    /\ token = NonString
    /\ NoCallYet

AliasNext ==
    \/ enforcePolicyCall
    \/ enforcePolicyResume
    \/ FetchNetworkError
    \/ FetchTimeout
    \/ FetchResponds
    \/ TimeoutPassesUnarmed
    \/ BodyArrives
    \/ BodyUnparseable
    \/ ErrorBodyArrives
    \/ Wake
    \/ policyUpdateConfig
    \/ keepGetConfig
    \/ holderSetsFailClosed
    \/ holderPushes

AliasSpec == AliasInit /\ [][AliasNext]_vars

\* The helpers of utils.ts, each applied to one argument.
CodecInit ==
    /\ clientCtor = ClientArg(None, None, None)
    /\ clientConfig = ClientConstructor(clientCtor)
    /\ policyCtor = [factory |-> "PolicyEnforcer", config |-> NoPolicy]
    /\ EnforcerBuilt
    /\ held = None
    /\ updates = 0
    /\ token \in CodecInputs
    /\ NoCallYet

CodecNext ==
    \/ isValidTokenFormatCall
    \/ parseJWTCall
    \/ isTokenExpiredCall
    \/ getTokenAgeCall
    \/ createValidToken
    \/ encodeUtf8Token

CodecSpec == CodecInit /\ [][CodecNext]_vars

-----------------------------------------------------------------------------
(* Reading a finished call                                                 *)

\* an enforcePolicy call has settled
EnforceDone == pc = "done" /\ op = "enforcePolicy"

\* the clock reading of the finished call's rule checks (any reading serves
\* when the clock was not read)
ClockRead == IF now = 0 THEN Epoch ELSE now

\* the reasons an enforcePolicy outcome carries: PolicyResult.reasons of a
\* returned result, PolicyViolationError.violations of a raised one
ReasonsOf(o) ==
    IF o.kind = "return" THEN Get(o.value).reasons ELSE Get(o.error).violations

Raises(o, name) == o.kind = "throw" /\ Get(o.error).name = name

\* client.verifyToken returned the verification v (not the JSON value null)
VerifiedAs(v) == settled.kind = "return" /\ Get(settled.value) = Some(v)

\* the authority answered valid:true with claims present
VerifiedWithClaims ==
    /\ settled.kind = "return"
    /\ Get(settled.value) # None
    /\ Get(Get(settled.value)).valid
    /\ Get(Get(settled.value)).claims # None

TheVerification == Get(Get(settled.value))

\* the enforcer's configuration is the one its constructor built from c
BuiltFrom(c) == usedPolicy = Some(PolicyConstructor(c))

\* the token's locally decoded age was computed and is within max seconds
LocalAgeWithin(max) ==
    /\ getTokenAge(token, ClockRead) # None
    /\ Get(getTokenAge(token, ClockRead)) <= max

-----------------------------------------------------------------------------
(* Fail-open / fail-closed disposition                                     *)

\* what the same continuation yields with failClosed switched off
FailOpenRun ==
    enforcePolicy([Get(usedPolicy) EXCEPT !.failClosed = FALSE],
                  token, settled, ClockRead)

\* C1: whenever enforcePolicy under failClosed = true produces at least one
\* violation reason, it raises PolicyViolationError, and the error's
\* violations are the reasons the same call returns under failClosed = false.
C1_FailClosedAlwaysRaises ==
    (EnforceDone /\ Get(usedPolicy).failClosed
        /\ FailOpenRun.kind = "return" /\ ReasonsOf(FailOpenRun) # <<>>)
    => /\ Raises(outcome, "PolicyViolationError")
       /\ ReasonsOf(outcome) = ReasonsOf(FailOpenRun)

\* C2: under failClosed = false enforcePolicy never raises, whatever the
\* token and however the transport settled: it returns a PolicyResult.
C2_FailOpenNeverRaises ==
    (EnforceDone /\ ~Get(usedPolicy).failClosed) => outcome.kind = "return"

\* a fail-open call whose transport gave up after its last attempt has
\* returned
C2_Witness ==
    /\ EnforceDone
    /\ ~Get(usedPolicy).failClosed
    /\ settled.kind = "throw"
    /\ Get(settled.error).code = Some("REQUEST_FAILED")
    /\ outcome.kind = "return"

\* C3: in every PolicyResult enforcePolicy returns, allowed is true exactly
\* when reasons is empty.
C3_AllowedIffNoReasons ==
    (EnforceDone /\ outcome.kind = "return")
    => (Get(outcome.value).allowed <=> Get(outcome.value).reasons = <<>>)

\* a result returned with exactly one rule violation
C3_Witness ==
    /\ EnforceDone
    /\ outcome.kind = "return"
    /\ VerifiedWithClaims
    /\ Len(Get(outcome.value).reasons) = 1
    /\ ~Get(outcome.value).allowed

-----------------------------------------------------------------------------
(* Transport errors inside enforcePolicy                                   *)

\* the message of the error the transport raised, without the retry wrapper:
\* for exhausted retries, the message of the last attempt's error
UnderlyingMessage ==
    IF Get(settled.error).code = Some("REQUEST_FAILED")
    THEN Get(lastError).message
    ELSE Get(settled.error).message

\* C5: whenever the transport's verify raises an error with underlying
\* message m, the reasons are exactly ['Verification request failed: m'] (no
\* rule check adds to them) and a returned result carries the synthetic
\* verification {valid: false, error: m}.
C5_TransportErrorBecomesOneReason ==
    (EnforceDone /\ settled.kind = "throw")
    => /\ ReasonsOf(outcome) = << <<"Verification request failed: ">> \o UnderlyingMessage >>
       /\ outcome.kind = "return" =>
            Get(outcome.value).verification =
                Verification(FALSE, None, None, None, None, Some(UnderlyingMessage))

-----------------------------------------------------------------------------
(* Rule checks                                                             *)

\* C6: the max-age decision depends only on the verified claims and the
\* clock: any other valid-format token for which the authority returns the
\* same verification gets the same reasons under the same configuration.
C6_AgeIndependentOfLocalPayload ==
    (EnforceDone /\ VerifiedWithClaims)
    => \A other \in ValidFormatTokens :
          ReasonsOf(enforcePolicy(Get(usedPolicy), other, settled, ClockRead))
              = ReasonsOf(outcome)

NeedDeploymentOpen == With(NeedDeployment, "failClosed", FALSE)

LacksDeployment ==
    /\ VerifiedWithClaims
    /\ ~TruthyStr(Get(TheVerification.claims).deployment_id)

-----------------------------------------------------------------------------
(* Retry protocol                                                          *)

\* the retries the client was constructed with (3 when unspecified)
ConstructedRetries ==
    IF clientCtor.retries = None THEN DefaultRetries ELSE Get(clientCtor.retries)

\* the client's configuration is still the one its constructor built
NeverUpdated ==
    /\ startConfig = ClientConstructor(clientCtor)
    /\ clientConfig = startConfig

\* every network attempt of the finished call failed with a status >= 500,
\* a network error or a timeout
AllAttemptsTransient ==
    /\ pc = "done"
    /\ fetches > 0
    /\ Len(log) = fetches
    /\ \A i \in 1..Len(log) : log[i] = "failed"
    /\ ~unparsed

\* C9: a verifyToken call on a valid-format token, by a client constructed
\* with retries = r >= 0 (r = 0 included), whose every attempt fails
\* retryably makes exactly r + 1 network attempts and then fails with
\* REQUEST_FAILED.
C9_RetriesPlusOneAttempts ==
    (op = "verifyToken" /\ isValidTokenFormat(token) /\ NeverUpdated
        /\ AllAttemptsTransient)
    => /\ fetches = ConstructedRetries + 1
       /\ outcome.kind = "throw"
       /\ Get(outcome.error).code = Some("REQUEST_FAILED")

\* the result the transport settled with
TransportResult ==
    IF op \in {"enforcePolicy", "quickCheck"} THEN settled ELSE outcome

\* C10: a non-2xx response with status < 500 ends the call at once, on any
\* attempt: the call fails with HTTP_ERROR carrying that status and the
\* extracted message, and neither a further network attempt nor a backoff
\* wait follows it.
C10_ClientErrorIsTerminal ==
    [][(pc = "errbody" /\ status < 500 /\ pc' # "errbody")
        => /\ pc' \in {"done", "resume"}
           /\ \E body \in ErrorBodies :
                 TransportResult' = Thrown(HttpError(status, body))
           /\ fetches' = fetches
           /\ waits' = waits
           /\ delay' = 0]_vars

\* a 499 on the second attempt has ended a call that had retries left
C10_Witness ==
    /\ pc = "done"
    /\ log = <<"failed", "client">>
    /\ fetches = 2
    /\ waits = 1
    /\ startConfig.retries = 3
    /\ clientConfig = startConfig
    /\ outcome.kind = "throw"
    /\ Get(outcome.error).statusCode = Some(499)

\* the attempts finished so far in this call all failed with a status >= 500,
\* a network error or a timeout
EarlierAttemptsTransient ==
    /\ \A i \in 1..Len(log) : log[i] = "failed"
    /\ ~unparsed

\* C11: when the attempts before attempt k failed retryably and attempt k's
\* 2xx response delivers its parsed body, the call returns that body at once:
\* k network attempts were made, k - 1 waits, and no attempt or wait follows.
C11_SuccessEndsTheCall ==
    [][(pc = "body" /\ EarlierAttemptsTransient /\ log' = Append(log, "ok"))
        => /\ pc' \in {"done", "resume"}
           /\ \E data \in BodiesFor(op) : TransportResult' = Returned(data)
           /\ fetches = Len(log) + 1
           /\ fetches' = fetches
           /\ waits' = Len(log)
           /\ delay' = 0]_vars

\* a client constructed with retries: 1 got a 500, then a 200 whose body
\* verifyToken returned, with two network attempts made
C11_Witness ==
    /\ pc = "done"
    /\ op = "verifyToken"
    /\ clientCtor.retries = Some(1)
    /\ NeverUpdated
    /\ log = <<"failed", "ok">>
    /\ fetches = 2
    /\ outcome = Returned(Some(VFull))
\* the request of the call has failed after its final attempt
RequestHasFailed ==
    /\ pc \in {"done", "resume"}
    /\ TransportResult.kind = "throw"
    /\ Get(TransportResult.error).code = Some("REQUEST_FAILED")

\* C13: the REQUEST_FAILED error's message is 'Request failed after N
\* attempts: m' with N the number of network attempts the call made and m the
\* message of the last attempt's error.
C13_MessageCountsAttemptsMade ==
    RequestHasFailed
    => Get(TransportResult.error).message =
          <<"Request failed after ", ToString(fetches), " attempts: ">>
              \o Get(lastError).message

-----------------------------------------------------------------------------
(* Timeouts                                                                *)

\* a network attempt is in progress: its response is not complete
AttemptPending == pc \in {"fetch", "body", "errbody"}

\* C12: no network attempt is still pending once the configured timeout has
\* elapsed since it began: by then it was aborted and counted as a failure.
C12_AttemptBoundedByTimeout == ~(AttemptPending /\ overdue)
-----------------------------------------------------------------------------
(* Argument checks of the client                                           *)

\* a string of exactly three dot-separated segments, each non-empty and made
\* only of characters in [A-Za-z0-9_-]
ThreeBase64UrlSegments(t) ==
    /\ t.isString
    /\ Len(t.parts) = 3
    /\ \A i \in 1..3 :
          /\ t.parts[i].chars # <<>>
          /\ \A k \in 1..Len(t.parts[i].chars) :
                t.parts[i].chars[k] \in {Alnum, "-", "_"}

ClientCall == op \in {"verifyToken", "bindResponse"}

\* C14: verifyToken and bindResponse of a token that is not a string of three
\* non-empty segments over [A-Za-z0-9_-] fail with INVALID_FORMAT, and no
\* network attempt is made.
C14_MalformedTokenNoRequest ==
    (ClientCall /\ ~ThreeBase64UrlSegments(token))
    => /\ pc = "done"
       /\ outcome = Thrown(InvalidFormat)
       /\ fetches = 0

\* bindResponse of a token that is not a string has failed that way
C14_Witness ==
    /\ op = "bindResponse"
    /\ token = NonString
    /\ pc = "done"
    /\ outcome = Thrown(InvalidFormat)
    /\ fetches = 0
\* the responseText argument is a string and not the empty one
NonEmptyText(text) == text # None /\ Get(text) # <<>>

\* C15: bindResponse fails with INVALID_RESPONSE, without a network attempt,
\* when the token is valid-format and responseText is empty or not a string;
\* with INVALID_FORMAT when the token is not valid-format, whatever
\* responseText is; and it issues a request only when both are valid.
C15_BindResponseArgumentChecks ==
    op = "bindResponse"
    => /\ (ThreeBase64UrlSegments(token) /\ ~NonEmptyText(responseText))
            => (pc = "done" /\ outcome = Thrown(InvalidResponse) /\ fetches = 0)
       /\ (~ThreeBase64UrlSegments(token) /\ ~NonEmptyText(responseText))
            => (pc = "done" /\ outcome = Thrown(InvalidFormat) /\ fetches = 0)
       /\ (ThreeBase64UrlSegments(token) /\ NonEmptyText(responseText))
            <=> fetches > 0

\* bindResponse of a malformed token and a null responseText has failed with
\* INVALID_FORMAT
C15_Witness ==
    /\ op = "bindResponse"
    /\ token = TokTwoParts
    /\ responseText = None
    /\ pc = "done"
    /\ outcome = Thrown(InvalidFormat)
    /\ fetches = 0
-----------------------------------------------------------------------------
(* quickCheck                                                              *)

QuickDone == pc = "done" /\ op = "quickCheck"

\* the enforcer's configuration at the call, overlaid by the overrides the
\* rules give, with failClosed off
Overlaid ==
    [startPolicy EXCEPT
        !.requireDeploymentId =
            IF rules.requireDeployment = None THEN @ ELSE Get(rules.requireDeployment),
        !.requireModelDigest =
            IF rules.requireDigest = None THEN @ ELSE Get(rules.requireDigest),
        !.maxTokenAge = IF rules.maxAge = None THEN @ ELSE rules.maxAge,
        !.allowedProviders =
            IF rules.allowedProviders = None THEN @ ELSE Get(rules.allowedProviders),
        !.failClosed = FALSE]

\* what enforcePolicy returns under that configuration for the same token,
\* transport result and clock
OverlaidRun == enforcePolicy(Overlaid, token, settled, ClockRead)

\* C16: quickCheck never raises; it returns true exactly when enforcePolicy,
\* under the enforcer's configuration overlaid by the overrides and with
\* failClosed off, returns allowed = true, and false on every violation and
\* every error, whatever the enforcer's own failClosed is.
C16_QuickCheckIsFailOpenEnforce ==
    QuickDone
    => /\ outcome.kind = "return"
       /\ Get(outcome.value) =
            (OverlaidRun.kind = "return" /\ Get(OverlaidRun.value).allowed)

\* on a fail-closed enforcer that requires a deployment id and a digest,
\* quickCheck with both requirements overridden to false has returned true
\* for claims without a digest
C16_Witness ==
    /\ QuickDone
    /\ startPolicy.failClosed
    /\ startPolicy.requireModelDigest
    /\ rules.requireDigest = Some(FALSE)
    /\ VerifiedAs(VOther)
    /\ outcome = Returned(TRUE)

\* on a fail-closed enforcer quickCheck has returned false after the
\* transport gave up
C16_WitnessError ==
    /\ QuickDone
    /\ startPolicy.failClosed
    /\ settled.kind = "throw"
    /\ outcome = Returned(FALSE)
-----------------------------------------------------------------------------
(* Configuration                                                           *)

\* the built-in values: all requirements off, empty allowlists, maxTokenAge
\* 900, failClosed true
BuiltIn ==
    [requireDeploymentId |-> FALSE, requireModelDigest |-> FALSE,
     requireBundleVerification |-> FALSE, allowedProviders |-> <<>>,
     allowedModels |-> <<>>, maxTokenAge |-> Some(900), failClosed |-> TRUE]

\* the layer a factory puts between the built-in values and the caller's
PresetLayer(factory) ==
    CASE factory = "createSecurePolicy" ->
            [failClosed |-> TRUE, requireDeploymentId |-> TRUE,
             requireModelDigest |-> TRUE, maxTokenAge |-> Some(300)]
      [] factory = "createLenientPolicy" ->
            [failClosed |-> FALSE, requireDeploymentId |-> FALSE,
             requireModelDigest |-> FALSE, maxTokenAge |-> Some(3600)]
      [] OTHER -> [none |-> FALSE]

\* the value of field f under right-biased layering
Layered(ctor, f) ==
    IF ctor.config[f] # None THEN Get(ctor.config[f])
    ELSE IF f \in DOMAIN PresetLayer(ctor.factory) THEN PresetLayer(ctor.factory)[f]
    ELSE BuiltIn[f]

\* C17: the configuration an enforcer is constructed with is the built-in
\* values, overlaid by the factory's preset (createSecurePolicy,
\* createLenientPolicy), overlaid by the caller's configuration: every field
\* the caller gives wins.
C17_RightBiasedLayering ==
    updates = 0
    => \A f \in PolicyFields : policyConfig[f] = Layered(policyCtor, f)

\* createSecurePolicy(client, {maxTokenAge: 600}) keeps its other presets,
\* as getConfig shows
C17_Witness ==
    /\ updates = 0
    /\ policyCtor = [factory |-> "createSecurePolicy",
                     config |-> With(NoPolicy, "maxTokenAge", Some(600))]
    /\ pc = "done"
    /\ op = "enforcer.getConfig"
    /\ Get(outcome.value).maxTokenAge = Some(600)
    /\ Get(outcome.value).requireDeploymentId
    /\ Get(outcome.value).failClosed
ClientFields == {"apiBaseUrl", "timeout", "retries"}

\* configuration `after` is `before` with exactly the fields present in the
\* partial replaced by the partial's values
OnlyGivenFieldsChange(before, after, partial, fields) ==
    \A f \in fields :
        after[f] = IF partial[f] # None THEN Get(partial[f]) ELSE before[f]

\* C18: a step that counts an updateConfig call changes, in the configuration
\* of the client or of the enforcer, exactly the fields present in the
\* partial and leaves every other field and the other configuration
\* unchanged; getConfig returns the configuration as it then is.
C18_UpdateConfigFrame ==
    [][/\ (updates' # updates)
            => \/ /\ policyConfig' = policyConfig
                  /\ \E partial \in AllClientPartials :
                        OnlyGivenFieldsChange(clientConfig, clientConfig',
                                              partial, ClientFields)
               \/ /\ clientConfig' = clientConfig
                  /\ \E partial \in AllPolicyPartials :
                        OnlyGivenFieldsChange(policyConfig, policyConfig',
                                              partial, PolicyFields)
       /\ (updates' = updates)
            => /\ UNCHANGED <<clientConfig, policyConfig>>
               /\ op' = "client.getConfig" => outcome' = Returned(clientConfig)
               /\ op' = "enforcer.getConfig" => outcome' = Returned(policyConfig)
      ]_vars

\* after client.updateConfig({timeout: 5000}) on a client constructed with
\* retries: 1, getConfig shows the new timeout and the old retries
C18_Witness ==
    /\ updates = 1
    /\ clientCtor = ClientArg(None, None, Some(1))
    /\ pc = "done"
    /\ op = "client.getConfig"
    /\ outcome = Returned([apiBaseUrl |-> <<DefaultApiBaseUrl>>,
                           timeout |-> 5000, retries |-> 1])
-----------------------------------------------------------------------------
(* The helpers of utils.ts                                                 *)

\* the token with its middle segment made to decode to json
WithPayloadJson(t, json) ==
    [t EXCEPT !.parts = [@ EXCEPT ![2] = [@ EXCEPT !.json = json]]]

\* C19: isValidTokenFormat(x) is true exactly when x is a string of three
\* dot-separated segments, each non-empty and made only of characters in
\* [A-Za-z0-9_-]; what the middle segment decodes to makes no difference.
C19_ValidFormatIffThreeSegments ==
    (pc = "done" /\ op = "isValidTokenFormat")
    => /\ outcome = Returned(ThreeBase64UrlSegments(token))
       /\ (token.isString /\ Len(token.parts) >= 2)
            => \A json \in {JsonError, JsonNull, JsonObject(Some(1), None)} :
                  isValidTokenFormat(WithPayloadJson(token, json))
                      = Get(outcome.value)

\* a token of three well-formed segments whose middle segment is not JSON is
\* of valid format
C19_Witness ==
    /\ pc = "done"
    /\ op = "isValidTokenFormat"
    /\ token = TokOpaque
    /\ outcome = Returned(TRUE)

\* the middle segment of a three-segment string decodes: atob accepts it
\* once '-' and '_' are replaced, and the bytes are JSON
PayloadDecodes(t) ==
    LET seg == t.parts[2] IN
    /\ seg.chars # <<>>
    /\ \A i \in 1..Len(seg.chars) : seg.chars[i] \in {Alnum, "-", "_", "+", "/", "="}
    /\ seg.json.kind # "error"

\* C20: parseJWT raises for no input; it returns null when the input is not
\* a string of exactly three dot-separated parts or its middle part does not
\* decode to JSON, and the parsed payload otherwise (null for the JSON value
\* null).
C20_ParseJWTNeverRaises ==
    (pc = "done" /\ op = "parseJWT")
    => /\ outcome.kind = "return"
       /\ Get(outcome.value) =
            IF token.isString /\ Len(token.parts) = 3 /\ PayloadDecodes(token)
               /\ token.parts[2].json.kind = "object"
            THEN Some(token.parts[2].json)
            ELSE None

\* parseJWT of three well-formed segments whose middle one is not JSON has
\* returned null
C20_Witness ==
    /\ pc = "done"
    /\ op = "parseJWT"
    /\ token = TokOpaque
    /\ outcome = Returned(None)

\* parseJWT has returned the payload of a middle part that decodes to JSON
C20_WitnessPayload ==
    /\ pc = "done"
    /\ op = "parseJWT"
    /\ token = TokFresh
    /\ outcome = Returned(Some(JsonObject(Some(Epoch - 60), None)))
\* the payload parseJWT gives for the token of the finished call, None for
\* null
DecodedPayload ==
    IF token.isString /\ Len(token.parts) = 3 /\ PayloadDecodes(token)
       /\ token.parts[2].json.kind = "object"
    THEN Some(token.parts[2].json)
    ELSE None

\* C21: isTokenExpired and getTokenAge return null exactly when parseJWT
\* returns null or the field (exp, respectively iat) is absent from the
\* payload; with the field present, 0 included, isTokenExpired returns
\* exp < now and getTokenAge returns now - iat.
C21_NullIffUnparsedOrFieldAbsent ==
    /\ (pc = "done" /\ op = "isTokenExpired")
        => outcome = Returned(
              IF DecodedPayload = None \/ Get(DecodedPayload).exp = None
              THEN None
              ELSE Some(Get(Get(DecodedPayload).exp) < now))
    /\ (pc = "done" /\ op = "getTokenAge")
        => outcome = Returned(
              IF DecodedPayload = None \/ Get(DecodedPayload).iat = None
              THEN None
              ELSE Some(now - Get(Get(DecodedPayload).iat)))

\* the same statement, for payloads whose field is not 0
C21_NullIffUnparsedOrFieldFalsy ==
    /\ (pc = "done" /\ op = "isTokenExpired")
        => outcome = Returned(
              IF DecodedPayload = None \/ Get(DecodedPayload).exp \in {None, Some(0)}
              THEN None
              ELSE Some(Get(Get(DecodedPayload).exp) < now))
    /\ (pc = "done" /\ op = "getTokenAge")
        => outcome = Returned(
              IF DecodedPayload = None \/ Get(DecodedPayload).iat \in {None, Some(0)}
              THEN None
              ELSE Some(now - Get(Get(DecodedPayload).iat)))

\* a token expiring at the very second of the call is reported not expired
C21_WitnessBoundary ==
    /\ pc = "done"
    /\ op = "isTokenExpired"
    /\ DecodedPayload # None
    /\ Get(DecodedPayload).exp = Some(now)
    /\ outcome = Returned(Some(FALSE))
\* parseJWT has returned for a token that an encoder produced from a claims
\* object
RoundTripDone == pc = "done" /\ op = "parseJWT" /\ encoded # None

\* C22: a claims object encoded as JSON into the unpadded base64url middle
\* segment of a three-part token comes back from parseJWT as an equal object.
C22_RoundTrip ==
    RoundTripDone => Get(outcome.value) = Some(Get(encoded).claims)

\* the round trip of claims whose strings are ASCII, and of every claims
\* object that btoa can encode
C22_RoundTripOneBytePerCharacter ==
    (/\ RoundTripDone
     /\ \/ Get(encoded).encoder = "btoa"
        \/ Get(encoded).claims.sub = None
        \/ \A i \in 1..Len(Get(Get(encoded).claims.sub)) :
              Get(Get(encoded).claims.sub)[i] < 128)
    => Get(outcome.value) = Some(Get(encoded).claims)

\* a claims object with a non-ASCII string has made the round trip through
\* the tests' encoder
C22_WitnessLatin1 ==
    /\ RoundTripDone
    /\ Get(encoded).encoder = "btoa"
    /\ Get(encoded).claims.sub = Some(<<233>>)
    /\ Get(outcome.value) = Some(Get(encoded).claims)
-----------------------------------------------------------------------------
(* The rules of checkTokenPolicy                                           *)

\* the rule a reason belongs to, by its text: 1 max-age, 2 deployment ID,
\* 3 model digest, 4 bundle, 5 provider allowlist, 6 model allowlist
RuleOf(reason) ==
    CASE reason = ReasonNoAge \/ reason[1] = "Token is too old: " -> 1
      [] reason = ReasonDeployment -> 2
      [] reason = ReasonDigest -> 3
      [] reason = ReasonNoBundle
         \/ reason[1] = "Bundle verification failed: status is '" -> 4
      [] reason[1] = "Provider '" -> 5
      [] reason[1] = "Model '" -> 6
      [] OTHER -> 0

Listed(list, x) == \E i \in DOMAIN list : list[i] = x

\* whether the flag condition of rule k holds for the finished call, under
\* the configuration its rule checks read
Flagged(k) ==
    LET cfg == Get(usedPolicy)
        v == TheVerification
        claims == Get(v.claims)
        age == getTokenAge(token, ClockRead)
    IN CASE k = 1 -> /\ cfg.maxTokenAge # None
                     /\ (age = None \/ Get(age) > Get(cfg.maxTokenAge))
         [] k = 2 -> cfg.requireDeploymentId /\ claims.deployment_id = None
         [] k = 3 -> cfg.requireModelDigest /\ claims.model_digest = None
         [] k = 4 -> /\ cfg.requireBundleVerification
                     /\ v.bundle_check # Some("verified")
         [] k = 5 -> /\ cfg.allowedProviders # <<>>
                     /\ (v.provider = None
                          \/ ~Listed(cfg.allowedProviders, Get(v.provider)))
         [] k = 6 -> /\ cfg.allowedModels # <<>>
                     /\ (v.model = None
                          \/ ~Listed(cfg.allowedModels, Get(v.model)))

\* C23: for a valid:true response with claims, the reasons hold exactly one
\* entry for each rule whose flag condition holds and none for any other
\* rule, in the order max-age, deployment ID, model digest, bundle, provider
\* allowlist, model allowlist.
C23_EveryFlaggedRuleOnceInOrder ==
    (EnforceDone /\ VerifiedWithClaims)
    => LET rs == ReasonsOf(outcome) IN
       /\ \A i \in DOMAIN rs : RuleOf(rs[i]) \in 1..6
       /\ \A i, j \in DOMAIN rs : i < j => RuleOf(rs[i]) < RuleOf(rs[j])
       /\ {RuleOf(rs[i]) : i \in DOMAIN rs} = {k \in 1..6 : Flagged(k)}

\* five rules are violated at once and all five reasons are reported
C23_Witness ==
    /\ EnforceDone
    /\ VerifiedWithClaims
    /\ Len(ReasonsOf(outcome)) = 5
    /\ RuleOf(ReasonsOf(outcome)[1]) = 1
    /\ RuleOf(ReasonsOf(outcome)[5]) = 6

\* the authority answered valid:false
VerifiedInvalid ==
    /\ settled.kind = "return"
    /\ Get(settled.value) # None
    /\ ~Get(Get(settled.value)).valid

\* C24: for a valid:false response no rule is checked: under every policy
\* configuration the reasons are the single entry 'Token verification
\* failed: <error>' and the verification returned is the response itself.
C24_InvalidSkipsRuleChecks ==
    (EnforceDone /\ VerifiedInvalid)
    => /\ outcome.kind = "return"
       /\ Get(outcome.value).reasons =
             << <<"Token verification failed: ">> \o Str(TheVerification.error) >>
       /\ Get(outcome.value).verification = TheVerification
       /\ now = 0

\* the strictest enforcer has reported the one reason for 'Token expired'
C24_Witness ==
    /\ EnforceDone
    /\ BuiltFrom(Strict)
    /\ VerifiedAs(VInvalid)
    /\ Get(outcome.value).reasons = << <<"Token verification failed: ", "Token expired">> >>
-----------------------------------------------------------------------------
(* One verification per enforcePolicy call                                 *)

\* an enforcePolicy call is in flight or has just settled
Enforcing == op = "enforcePolicy" /\ pc # "idle"

\* the three terminal outcomes of enforcePolicy
AllowedResult(o) ==
    o.kind = "return" /\ Get(o.value).allowed /\ Get(o.value).reasons = <<>>
DeniedResult(o) ==
    o.kind = "return" /\ ~Get(o.value).allowed /\ Get(o.value).reasons # <<>>
PolicyViolation(o) == Raises(o, "PolicyViolationError")

\* no rule has been checked while the verification is pending, and the call
\* ends in one of the three terminal outcomes
OneVerificationThenRules ==
    Enforcing =>
       /\ pc \notin {"resume", "done"}
            => /\ settled = Pending
               /\ outcome = Pending
               /\ usedPolicy = None
               /\ now = 0
       /\ pc = "resume"
            => /\ settled # Pending
               /\ outcome = Pending
               /\ usedPolicy = None
               /\ now = 0
       /\ pc = "done"
            => /\ settled # Pending
               /\ usedPolicy # None
               /\ \/ AllowedResult(outcome)
                  \/ DeniedResult(outcome)
                  \/ PolicyViolation(outcome)

\* once the verification has settled the transport is not touched again, and
\* the only step left to the call is the one that settles it
NoSecondVerification ==
    (Enforcing /\ pc = "resume")
    => /\ pc' \in {"resume", "done"}
       /\ UNCHANGED <<transportVars, settled, op, token>>

\* C25: an enforcePolicy call invokes client.verifyToken once, before any
\* rule is checked, never issues it again whatever the outcome, and ends in
\* exactly one terminal outcome: an allowed result, a denied result or a
\* PolicyViolationError.
C25_OneVerificationOneOutcome ==
    []OneVerificationThenRules /\ [][NoSecondVerification]_vars

\* a fail-closed call whose single verification took two attempts has raised
\* PolicyViolationError
C25_Witness ==
    /\ EnforceDone
    /\ fetches = 2
    /\ settled.kind = "return"
    /\ PolicyViolation(outcome)
-----------------------------------------------------------------------------
(* The single rules                                                        *)

\* the authority answered valid:true without claims
VerifiedWithoutClaims ==
    /\ settled.kind = "return"
    /\ Get(settled.value) # None
    /\ Get(Get(settled.value)).valid
    /\ Get(Get(settled.value)).claims = None

\* C26: a valid:true response without claims gives exactly the reason 'No
\* claims found in token' and no other rule is evaluated, whatever the
\* configuration.
C26_NoClaimsShortCircuits ==
    (EnforceDone /\ VerifiedWithoutClaims)
    => /\ ReasonsOf(outcome) = << <<"No claims found in token">> >>
       /\ now = 0

\* the strictest enforcer, given a token whose age cannot be computed and a
\* response without claims or bundle, has reported the one reason
C26_Witness ==
    /\ EnforceDone
    /\ BuiltFrom(Strict)
    /\ token = TokOpaque
    /\ VerifiedAs(VNoClaims)
    /\ ReasonsOf(outcome) = << <<"No claims found in token">> >>

\* the reasons of the finished call that belong to rule k
ReasonsOfRule(k) ==
    SelectSeq(ReasonsOf(outcome), LAMBDA reason : RuleOf(reason) = k)

\* C27: a bundle reason is produced only under requireBundleVerification:
\* then an absent bundle_check gives 'Bundle verification is required but no
\* bundle information available', a status other than 'verified' gives
\* "Bundle verification failed: status is '<status>'" and 'verified' gives
\* none; without the requirement no bundle reason is produced.
C27_BundleRule ==
    (EnforceDone /\ VerifiedWithClaims)
    => ReasonsOfRule(4) =
         IF ~Get(usedPolicy).requireBundleVerification THEN <<>>
         ELSE IF TheVerification.bundle_check = None
         THEN << <<"Bundle verification is required but no bundle information available">> >>
         ELSE IF TheVerification.bundle_check # Some("verified")
         THEN << <<"Bundle verification failed: status is '",
                   Get(TheVerification.bundle_check), "'">> >>
         ELSE <<>>

\* a bundle of status 'unknown' has been reported under the requirement
C27_Witness ==
    /\ EnforceDone
    /\ VerifiedWithClaims
    /\ Get(usedPolicy).requireBundleVerification
    /\ ReasonsOfRule(4) =
         << <<"Bundle verification failed: status is '", "unknown", "'">> >>

\* a bundle of status 'invalid' has gone unreported without the requirement
C27_WitnessNotRequired ==
    /\ EnforceDone
    /\ VerifiedWithClaims
    /\ ~Get(usedPolicy).requireBundleVerification
    /\ TheVerification.bundle_check = Some("invalid")
    /\ ReasonsOfRule(4) = <<>>

\* what an allowlist rule reports for the verified party (provider or
\* model), called kind in the reason
AllowlistReasons(kind, list, party) ==
    IF list = <<>> THEN <<>>
    ELSE IF party = None
    THEN << <<kind, "unknown", "' is not in allowed list">> >>
    ELSE IF ~Listed(list, Get(party))
    THEN << <<kind, Get(party), "' is not in allowed list">> >>
    ELSE <<>>

\* C28: an empty allowedProviders (allowedModels) list restricts nothing; a
\* non-empty one flags the token exactly when the verified provider (model)
\* is absent or its id is not in the list, the reason naming the id, or
\* 'unknown' when absent.
C28_AllowlistRules ==
    (EnforceDone /\ VerifiedWithClaims)
    => /\ ReasonsOfRule(5) =
             AllowlistReasons("Provider '", Get(usedPolicy).allowedProviders,
                              TheVerification.provider)
       /\ ReasonsOfRule(6) =
             AllowlistReasons("Model '", Get(usedPolicy).allowedModels,
                              TheVerification.model)

\* a provider and a model outside the lists have been reported by their ids
C28_Witness ==
    /\ EnforceDone
    /\ VerifiedWithClaims
    /\ Get(usedPolicy).allowedProviders = <<"p1">>
    /\ ReasonsOfRule(5) = << <<"Provider '", "p2", "' is not in allowed list">> >>
    /\ ReasonsOfRule(6) = << <<"Model '", "m2", "' is not in allowed list">> >>

\* an absent provider has been reported as 'unknown'
C28_WitnessUnknown ==
    /\ EnforceDone
    /\ VerifiedWithClaims
    /\ TheVerification.provider = None
    /\ ReasonsOfRule(5) =
         << <<"Provider '", "unknown", "' is not in allowed list">> >>

\* the age of the token: the clock of the rule check minus the iat of its
\* payload, None when the payload does not parse or carries no iat
TokenAge ==
    IF DecodedPayload = None \/ Get(DecodedPayload).iat = None THEN None
    ELSE Some(ClockRead - Get(Get(DecodedPayload).iat))

\* what the age rule reports for the age a under the limit max
AgeReasons(max, a) ==
    IF max = None THEN <<>>
    ELSE IF a = None THEN << <<"Unable to determine token age">> >>
    ELSE IF Get(a) > Get(max)
    THEN << <<"Token is too old: ", ToString(Get(a)), "s > ",
              ToString(Get(max)), "s">> >>
    ELSE <<>>

\* C29: with maxTokenAge = M set, the age rule reports 'Token is too old'
\* exactly when age > M (not for age = M, not for a negative age) and 'Unable
\* to determine token age' exactly when the age cannot be computed; with
\* maxTokenAge unset it reports nothing.
C29_AgeRule ==
    (EnforceDone /\ VerifiedWithClaims)
    => ReasonsOfRule(1) = AgeReasons(Get(usedPolicy).maxTokenAge, TokenAge)

\* the same statement for every token but those issued at iat 0
C29_AgeRuleNonZeroIat ==
    (EnforceDone /\ VerifiedWithClaims /\ token # TokIatZero)
    => ReasonsOfRule(1) = AgeReasons(Get(usedPolicy).maxTokenAge, TokenAge)

\* a token exactly as old as the limit has passed the age rule
C29_WitnessAtLimit ==
    /\ EnforceDone
    /\ VerifiedWithClaims
    /\ Get(usedPolicy).maxTokenAge = Some(900)
    /\ TokenAge = Some(900)
    /\ ReasonsOfRule(1) = <<>>

\* a token issued in the future has passed the age rule
C29_WitnessFuture ==
    /\ EnforceDone
    /\ VerifiedWithClaims
    /\ Get(usedPolicy).maxTokenAge # None
    /\ TokenAge # None
    /\ Get(TokenAge) < 0
    /\ ReasonsOfRule(1) = <<>>
-----------------------------------------------------------------------------
(* updateConfig during an enforcePolicy call                               *)

\* the configuration versions the enforcer has had since the call began
VersionsSinceStart ==
    {startPolicy} \cup {PolicyMerge(startPolicy, p) : p \in PolicyPartials}

\* what the continuation of the finished call gives when every rule and the
\* fail-closed disposition read the one configuration v
UnderVersion(v) == enforcePolicy(v, token, settled, ClockRead)

\* the step in which the rule-checking phase runs settles the call with what
\* the configuration current at that step gives
RulePhaseReadsCurrentVersion ==
    (op = "enforcePolicy" /\ pc = "resume" /\ pc' = "done")
    => /\ usedPolicy' = Some(policyConfig)
       /\ outcome' = enforcePolicy(policyConfig, token, settled,
                                   IF now' = 0 THEN Epoch ELSE now')

\* C30: however updateConfig calls interleave with an enforcePolicy call, the
\* call's rule checks and its fail-closed disposition are evaluated against
\* one configuration version, the one current when the rule-checking phase
\* begins; its outcome never mixes fields of two versions.
C30_OneConfigurationVersion ==
    /\ [](EnforceDone
            => /\ usedPolicy \in {Some(v) : v \in VersionsSinceStart}
               /\ outcome = UnderVersion(Get(usedPolicy)))
    /\ [][RulePhaseReadsCurrentVersion]_vars

\* the configuration was updated while the verification was in flight, and
\* the call has settled as the new version alone decides: with the reason of
\* the newly required digest, returned because failClosed is now off
C30_Witness ==
    /\ EnforceDone
    /\ startPolicy.failClosed
    /\ ~startPolicy.requireModelDigest
    /\ usedPolicy = Some(policyConfig)
    /\ policyConfig # startPolicy
    /\ VerifiedWithClaims
    /\ outcome.kind = "return"
    /\ Listed(Get(outcome.value).reasons,
              <<"Model digest is required but not present in token">>)
    /\ outcome # UnderVersion(startPolicy)
-----------------------------------------------------------------------------
(* updateConfig during a verifyToken / bindResponse call                   *)

\* a call on the client itself has issued a request
ClientRequest == op \in {"verifyToken", "bindResponse"} /\ url # None

\* the request goes to the base URL the client had when the call started
UrlFixedAtStart ==
    ClientRequest => Get(url) = startConfig.apiBaseUrl \o Endpoint(op)

\* every attempt's timer is armed with the timeout the client had when the
\* call started
TimeoutFixedAtStart ==
    (ClientRequest /\ timer # 0) => timer = startConfig.timeout

\* a call that gives up after its attempts all failed has made as many
\* attempts as the retries of the call's start allow
AttemptsFixedAtStart ==
    (ClientRequest /\ RequestHasFailed) => fetches = startConfig.retries + 1

\* C31: a client.updateConfig executed while a verifyToken / bindResponse
\* call is in flight changes neither that call's number of attempts nor its
\* per-attempt timeout nor its target URL: they are fixed when the call
\* starts.
C31_InFlightCallKeepsItsConfiguration ==
    UrlFixedAtStart /\ TimeoutFixedAtStart /\ AttemptsFixedAtStart

-----------------------------------------------------------------------------
(* Arrays shared between the enforcer and its caller                        *)

\* the configurations updateConfig calls can have given the enforcer
VersionsByUpdate ==
    {Construct(policyCtor)}
        \cup {PolicyMerge(Construct(policyCtor), p) : p \in PolicyPartials}

\* assigning a field of a held object never changes the enforcer
HeldScalarsAreCopies ==
    [][held' # held => policyConfig' = policyConfig]_vars

\* C32: the enforcer's effective configuration changes only through
\* updateConfig: whatever the caller does to the object it passed to the
\* constructor or to an object getConfig returned, lists included, every
\* enforcePolicy outcome is the one a configuration made by the constructor
\* and updateConfig calls gives.
C32_OnlyUpdateConfigChangesOutcomes ==
    EnforceDone => \E v \in VersionsByUpdate : outcome = UnderVersion(v)

-----------------------------------------------------------------------------
(* quickCheck and the enforcer's own configuration                          *)

\* an enforcePolicy call made next on the same enforcer, the authority
\* answering as it answered the finished call
LaterEnforce == enforcePolicy(policyConfig, token, settled, ClockRead)

\* what that call would give had it only to report, not to raise
LaterReport ==
    enforcePolicy([policyConfig EXCEPT !.failClosed = FALSE], token, settled,
                  ClockRead)

\* a step of a quickCheck call: the call itself, a step of its request, its
\* continuation
QuickCheckStep == op' = "quickCheck" /\ updates' = updates

\* C33: quickCheck leaves the enforcer's own configuration unchanged: no step
\* of a quickCheck call changes what getConfig returns, and after a
\* quickCheck on a fail-closed enforcer a later enforcePolicy still raises
\* PolicyViolationError when its rule checks find a violation.
C33_QuickCheckKeepsConfiguration ==
    /\ [][QuickCheckStep
            => UNCHANGED <<policyConfig, configRefs, heap, clientConfig>>]_vars
    /\ []((QuickDone /\ updates = 0)
            => /\ policyConfig = Construct(policyCtor)
               /\ (policyConfig.failClosed /\ ~VerifiedInvalid
                     /\ ReasonsOf(LaterReport) # <<>>)
                  => Raises(LaterEnforce, "PolicyViolationError"))

\* on a fail-closed enforcer requiring a digest, quickCheck with the
\* requirements overridden to false has returned true, and a later
\* enforcePolicy raises for the missing digest
C33_Witness ==
    /\ QuickDone
    /\ updates = 0
    /\ policyConfig.failClosed
    /\ policyConfig.requireModelDigest
    /\ rules.requireDigest = Some(FALSE)
    /\ outcome = Returned(TRUE)
    /\ Raises(LaterEnforce, "PolicyViolationError")

-----------------------------------------------------------------------------
(* Backoff waits                                                            *)

\* a request of makeRequest is under way or over
RequestMade == url # None /\ fetches > 0

\* while the client sleeps after the failure of attempt k, the delay lies
\* between min(1000 * 2^k, 10000) and that plus 1000
DelayInRange ==
    pc = "sleep"
    => /\ delay >= Min(BaseDelay * Pow2(attempt), MaxDelay)
       /\ delay <= Min(BaseDelay * Pow2(attempt), MaxDelay) + JitterRange

\* one wait for each attempt made so far while the client sleeps, one fewer
\* while an attempt is under way
OneWaitBetweenAttempts ==
    /\ (RequestMade /\ pc = "sleep") => waits = fetches
    /\ (RequestMade /\ pc \in {"fetch", "body", "errbody"}) => waits = fetches - 1

\* a request that is over waited only between its attempts: not after the
\* final attempt, not after a terminal failure
NoWaitAfterLastAttempt ==
    (RequestMade /\ pc \in {"resume", "done"}) => waits = fetches - 1

\* C34: after a retryable failure of attempt k that is not the last, the
\* client waits d with min(1000*2^k, 10000) <= d <= min(1000*2^k, 10000) +
\* 1000 before the next attempt; exactly one wait separates consecutive
\* attempts, and there is no wait before the first attempt, after the final
\* attempt or after a terminal failure.
C34_BackoffWaits ==
    DelayInRange /\ OneWaitBetweenAttempts /\ NoWaitAfterLastAttempt

\* the same for the calls during which updateConfig was not called
BackoffWaitsUnlessReconfigured ==
    (clientConfig = startConfig) => C34_BackoffWaits

-----------------------------------------------------------------------------
(* The message of an HTTP_ERROR                                             *)

StatusLine(st) == <<"HTTP ", ToString(st), ": ", StatusText(st)>>

\* the message by presence: detail when the body has the field, else error
\* when it has that one, else the status line
MessageByPresence(st, body) ==
    IF body.parses /\ body.detail # None THEN Get(body.detail)
    ELSE IF body.parses /\ body.error # None THEN Get(body.error)
    ELSE StatusLine(st)

\* the message by content: a field that is absent or the empty string is
\* passed over
MessageByContent(st, body) ==
    IF body.parses /\ body.detail # None /\ Get(body.detail) # <<>>
    THEN Get(body.detail)
    ELSE IF body.parses /\ body.error # None /\ Get(body.error) # <<>>
    THEN Get(body.error)
    ELSE StatusLine(st)

C35_WitnessUnparsed ==
    /\ pc = "done"
    /\ op = "verifyToken"
    /\ errorData = Some(ErrorBody(FALSE, None, None))
    /\ outcome = Thrown(ModelSignatureError(StatusLine(400),
                                            Some("HTTP_ERROR"), Some(400)))

-----------------------------------------------------------------------------
(* Termination of a request                                                 *)

\* a verifyToken or bindResponse call is in flight
InFlight == pc \in {"fetch", "body", "errbody", "sleep"}

\* the call is awaiting the body of a response whose status line has arrived
ReadingBody == pc \in {"body", "errbody"}

\* C36: every verifyToken / bindResponse call eventually terminates, after at
\* most retries + 1 attempts, provided only that each backoff wait ends and
\* that each attempt's timeout timer fires if the attempt has not completed;
\* the authority may stay silent forever.
C36_CallTerminates ==
    /\ [](RequestMade => fetches <= startConfig.retries + 1)
    /\ (InFlight ~> pc = "done")

\* a call in flight terminates or comes to await a response body
TerminatesOrAwaitsBody == InFlight ~> (pc = "done" \/ ReadingBody)

-----------------------------------------------------------------------------
(* enforcePolicy on a malformed token                                       *)

FormatReason == <<"Verification request failed: ", "Invalid token format">>

FormatVerification ==
    Verification(FALSE, None, None, None, None, Some(<<"Invalid token format">>))

\* an enforcePolicy call on a token that is not valid-format has settled
MalformedEnforced == EnforceDone /\ ~isValidTokenFormat(token)

\* C37: enforcePolicy on a token that is not valid-format makes no network
\* attempt and produces the single reason 'Verification request failed:
\* Invalid token format' with verification {valid: false, error: 'Invalid
\* token format'}: a denied result is returned when failClosed is false, a
\* PolicyViolationError carrying the reason is raised when it is true.
C37_MalformedTokenDeniedWithoutRequest ==
    MalformedEnforced
    => /\ fetches = 0
       /\ url = None
       /\ waits = 0
       /\ IF Get(usedPolicy).failClosed
          THEN /\ Raises(outcome, "PolicyViolationError")
               /\ Get(outcome.error).violations = <<FormatReason>>
          ELSE outcome = Returned([allowed |-> FALSE,
                                   reasons |-> <<FormatReason>>,
                                   verification |-> FormatVerification])

\* a two-segment token has been denied by a fail-open enforcer, and a padded
\* one has made a fail-closed enforcer raise
C37_Witness ==
    /\ MalformedEnforced
    /\ token = TokTwoParts
    /\ ~Get(usedPolicy).failClosed
    /\ outcome.kind = "return"

C37_WitnessRaised ==
    /\ MalformedEnforced
    /\ token = TokPadded
    /\ Get(usedPolicy).failClosed
    /\ outcome.kind = "throw"

-----------------------------------------------------------------------------
(* The errors enforcePolicy raises                                          *)

\* client.verifyToken raised an error with this code
TransportRaised(code) ==
    settled.kind = "throw" /\ Get(settled.error).code = Some(code)

\* verification threw something that is not a ModelSignatureError: the
\* authority's body was the JSON value null
VerificationThrewNative ==
    settled.kind = "return" /\ Get(settled.value) = None

\* C38: in either mode enforcePolicy raises no error other than
\* PolicyViolationError: the transport's INVALID_FORMAT, HTTP_ERROR and
\* REQUEST_FAILED errors and any other exception thrown during verification
\* never reach the caller; a fail-open enforcer raises nothing.
C38_OnlyPolicyViolationErrorRaised ==
    (op = "enforcePolicy" /\ outcome.kind = "throw")
    => /\ Raises(outcome, "PolicyViolationError")
       /\ Get(usedPolicy).failClosed

\* a fail-closed enforcer has raised PolicyViolationError after the
\* transport raised HTTP_ERROR
C38_Witness ==
    /\ EnforceDone
    /\ TransportRaised("HTTP_ERROR")
    /\ Raises(outcome, "PolicyViolationError")

\* the same after REQUEST_FAILED, after INVALID_FORMAT and after a null body
C38_WitnessRequestFailed ==
    /\ EnforceDone
    /\ TransportRaised("REQUEST_FAILED")
    /\ Raises(outcome, "PolicyViolationError")

C38_WitnessInvalidFormat ==
    /\ EnforceDone
    /\ TransportRaised("INVALID_FORMAT")
    /\ Raises(outcome, "PolicyViolationError")

C38_WitnessNative ==
    /\ EnforceDone
    /\ VerificationThrewNative
    /\ Raises(outcome, "PolicyViolationError")

\* a fail-open enforcer has returned a denied result after HTTP_ERROR
C38_WitnessFailOpen ==
    /\ EnforceDone
    /\ TransportRaised("HTTP_ERROR")
    /\ ~Get(usedPolicy).failClosed
    /\ outcome.kind = "return"

-----------------------------------------------------------------------------
(* A 2xx response whose body is not JSON                                    *)

\* how the request of the call settled
RequestResult == IF op \in {"enforcePolicy", "quickCheck"} THEN settled ELSE outcome

\* the request is over and its last attempt was a 2xx response whose body
\* did not parse
EndedOnUnparsedBody ==
    /\ RequestMade
    /\ pc \in {"resume", "done"}
    /\ lastError = Some(SyntaxError)

\* the step in which response.json() of a 2xx response throws
UnparsedBodyStep ==
    pc = "body" /\ pc' # "body" /\ lastError' = Some(SyntaxError)

\* C39: a 2xx response whose body cannot be parsed as JSON is a retryable
\* failure: a backoff wait and a further attempt follow while attempts
\* remain, REQUEST_FAILED is raised when none does; the response is never
\* returned as a result and never raised as HTTP_ERROR.
C39_UnparsedBodyIsRetryable ==
    /\ [][UnparsedBodyStep
            => /\ log' = Append(log, "failed")
               /\ IF attempt = clientConfig.retries
                  THEN pc' \in {"resume", "done"}
                  ELSE pc' = "sleep" /\ waits' = waits + 1]_vars
    /\ [](EndedOnUnparsedBody
            => /\ RequestResult.kind = "throw"
               /\ Get(RequestResult.error).code = Some("REQUEST_FAILED"))

\* a verifyToken call whose every answer was a 200 with an unparsable body
\* has been attempted twice and has raised REQUEST_FAILED
C39_Witness ==
    /\ pc = "done"
    /\ op = "verifyToken"
    /\ log = <<"failed", "failed">>
    /\ fetches = 2
    /\ lastError = Some(SyntaxError)
    /\ clientConfig = startConfig
    /\ Raises(outcome, "ModelSignatureError")
    /\ Get(outcome.error).code = Some("REQUEST_FAILED")

====
